---------------------------- MODULE Spec2Model ----------------------------
(***************************************************************************)
(* Link budget calculation engine of ntn-lbtools (backend).                *)
(*                                                                         *)
(* Units.  Floating point quantities of the source are kept in fixed point:*)
(*   - every dB / dBW / dBHz / dB/K value is an integer number of          *)
(*     tenths of a dB (65.0 dBHz is 650);                                  *)
(*   - info_bits_per_symbol and rolloff are in hundredths (0.5 is 50);     *)
(*   - spectral efficiency is in thousandths;                              *)
(*   - bandwidth is in Hz (a multiple of 1000), bit rate in bit/s;         *)
(*   - angles are whole degrees.                                           *)
(* An optional value (Python None) is the empty tuple, a present value v   *)
(* is the one-element tuple <<v>>.                                         *)
(***************************************************************************)
EXTENDS Integers, Sequences, FiniteSets, TLC

VARIABLES
    wf_arg,        \* the table handed to DvbS2xStrategy(table = ...)
    wf_strategy,   \* None before construction, then Some(instance or error)
    wf_calls,      \* the select_modcod calls made on the instance, in order
    pc,            \* the stage calculate() has reached ("idle": no request)
    payload,       \* the request dictionary handed to calculate()
    svc,           \* the service's communication strategy: waveform, context
    loc,           \* the local variables of calculate()
    response,      \* None, or Some(response) once the request is answered
    select_calls,  \* the select_modcod_with_margin calls calculate() made
    sw,            \* None, or Some(the locals of SweepService.execute)
    parked,        \* None, or Some(a second calculate() suspended at an await)
    imp,           \* None, or Some(one apply_impairments call: arguments and outcome)
    agent          \* None, or Some(the state of one run of the agent workflow)

wf_vars == << wf_arg, wf_strategy, wf_calls >>

calc_vars == << pc, payload, svc, loc, response, select_calls >>

\* What a step of calculate() or of the waveform strategy never touches.
rest_vars == << sw, parked, imp, agent >>

vars == << wf_arg, wf_strategy, wf_calls, pc, payload, svc, loc, response, select_calls, sw,
           parked, imp, agent >>

(***************************************************************************)
(* Optional values                                                         *)
(***************************************************************************)
None == << >>

Some(v) == << v >>

IsNone(x) == x = << >>

NotNone(x) == x # << >>

Val(x) == x[1]

Max(a, b) == IF a >= b THEN a ELSE b

Min(a, b) == IF a <= b THEN a ELSE b

(***************************************************************************)
(* math.log10 and 10 ** x in fixed point.                                  *)
(* Mantissa[k + 1] is 10^(k/100) scaled by 10^6, rounded up, k = 0..99.     *)
(***************************************************************************)
Mantissa ==
    << 1000000, 1023293, 1047129, 1071520, 1096479, 1122019, 1148154, 1174898, 1202265, 1230269,
       1258926, 1288250, 1318257, 1348963, 1380385, 1412538, 1445440, 1479109, 1513562, 1548817,
       1584894, 1621811, 1659587, 1698244, 1737801, 1778280, 1819701, 1862088, 1905461, 1949845,
       1995263, 2041738, 2089297, 2137963, 2187762, 2238722, 2290868, 2344229, 2398833, 2454709,
       2511887, 2570396, 2630268, 2691535, 2754229, 2818383, 2884032, 2951210, 3019952, 3090296,
       3162278, 3235937, 3311312, 3388442, 3467369, 3548134, 3630781, 3715353, 3801894, 3890452,
       3981072, 4073803, 4168694, 4265796, 4365159, 4466836, 4570882, 4677352, 4786301, 4897789,
       5011873, 5128614, 5248075, 5370318, 5495409, 5623414, 5754400, 5888437, 6025596, 6165951,
       6309574, 6456543, 6606935, 6760830, 6918310, 7079458, 7244360, 7413103, 7585776, 7762472,
       7943283, 8128306, 8317638, 8511381, 8709636, 8912510, 9120109, 9332544, 9549926, 9772373 >>

Pow10Int(d) == CASE d = 0 -> 1 [] d = 1 -> 10 [] d = 2 -> 100 [] d = 3 -> 1000
                 [] d = 4 -> 10000 [] d = 5 -> 100000 [] d = 6 -> 1000000
                 [] d = 7 -> 10000000 [] d = 8 -> 100000000 [] d = 9 -> 1000000000

\* Number of decimal digits of n, minus one (n >= 1).
Decade(n) == CHOOSE d \in 0..9 : Pow10Int(d) <= n /\ (d = 9 \/ n < Pow10Int(d + 1))

\* 10 * math.log10(n), in tenths of a dB, rounded down; n a positive integer.
TenLog10(n) ==
    LET Index(m) == CHOOSE j \in 0..99 : Mantissa[j + 1] <= m /\ (j = 99 \/ Mantissa[j + 2] > m)
        Tenths(d) == 100 * d + Index(IF d <= 6 THEN n * Pow10Int(6 - d)
                                     ELSE n \div Pow10Int(d - 6))
    IN  Tenths(Decade(n))

\* 1 / 10 ** (x / 10) for x in tenths of a dB, scaled by 10^8 (x above
\* -13 dB, for the result to stay below 2^31).
InvLin(x) ==
    LET Scaled(m, e) == IF e <= 2 THEN m * Pow10Int(2 - e) ELSE m \div Pow10Int(e - 2)
    IN  IF x % 100 = 0 THEN Scaled(Mantissa[1], x \div 100)
        ELSE Scaled(Mantissa[101 - (x % 100)], (x \div 100) + 1)

\* 10 * math.log10(1 / t) for an inverse linear ratio t scaled by 10^8: the
\* largest x (tenths of a dB) whose inverse ratio is still at least t.
DbOfInv(t) ==
    LET Largest(S) == CHOOSE x \in S : \A y \in S : y <= x
        Around(c) == Largest({ x \in (c - 2)..(c + 2) : InvLin(x) >= t })
    IN  Around(800 - TenLog10(t))

(***************************************************************************)
(* Waveform strategy: core/strategies/dvbs2x.py                            *)
(***************************************************************************)
\* A ModCod entry as handed to the constructor: a ModcodEntry instance
\* (kind "obj") or a loosely typed dictionary (kind "dict").  code_rate "a/b"
\* is the pair <<a, b>>.
ModcodEntry(id, kind, modulation, code_rate, cn0, ebno, info_bits, rolloff) ==
    [ id |-> id, kind |-> kind, modulation |-> modulation, code_rate |-> code_rate,
      required_cn0_dbhz |-> cn0, required_ebno_db |-> ebno,
      info_bits_per_symbol |-> info_bits, rolloff |-> rolloff ]

\* float("inf"): larger than every threshold of the model.
Infinity == 1000000

default_rolloff == 20

\* _parse_code_rate: "a/b" -> a / b (None when b = 0), kept as the pair.
parse_code_rate(code_rate) ==
    IF code_rate[2] = 0 THEN None ELSE Some(code_rate)

\* _modulation_bits: named aliases, else log2 of the integer in the label.
modulation_bits(modulation) ==
    CASE modulation = "BPSK" -> Some(1)
      [] modulation = "QPSK" -> Some(2)
      [] modulation = "OQPSK" -> Some(2)
      [] modulation = "8PSK" -> Some(3)
      [] modulation = "16APSK" -> Some(4)
      [] modulation = "64QAM" -> Some(6)
      [] OTHER -> None

\* _infer_info_bits_per_symbol (hundredths).
infer_info_bits_per_symbol(entry) ==
    LET Positive(info_bits) == IF info_bits <= 0 THEN None ELSE Some(info_bits)
        Infer(bits, rate) ==
            IF IsNone(bits) \/ IsNone(rate) THEN None
            ELSE Positive((Val(bits) * 100 * Val(rate)[1]) \div Val(rate)[2])
    IN  Infer(modulation_bits(entry.modulation), parse_code_rate(entry.code_rate))

\* The loop body of __init__: ModcodEntry instances are kept as they are, a
\* dictionary gets a missing (or zero) info_bits_per_symbol inferred.
normalize_entry(entry) ==
    LET WithInferred(inferred) ==
            IF NotNone(inferred)
            THEN [entry EXCEPT !.kind = "obj", !.info_bits_per_symbol = inferred]
            ELSE [entry EXCEPT !.kind = "obj"]
    IN  IF entry.kind = "obj" THEN entry
        ELSE IF IsNone(entry.info_bits_per_symbol) \/ entry.info_bits_per_symbol = Some(0)
        THEN WithInferred(infer_info_bits_per_symbol(entry))
        ELSE [entry EXCEPT !.kind = "obj"]

default_table ==
    << ModcodEntry("qpsk-1/4", "obj", "QPSK", <<1, 4>>, Some(650), None, Some(50), None),
       ModcodEntry("qpsk-1/2", "obj", "QPSK", <<1, 2>>, Some(700), None, Some(100), None),
       ModcodEntry("8psk-3/4", "obj", "8PSK", <<3, 4>>, Some(780), None, Some(225), None) >>

\* _validate_table: TRUE when no ValueError is raised.
validate_table(table) ==
    \A i \in 1..Len(table) :
        ~ (IsNone(table[i].info_bits_per_symbol) \/ Val(table[i].info_bits_per_symbol) <= 0)

\* DvbS2xStrategy.__init__: the instance, or the ValueError of _validate_table.
\* arg is None (no table given) or Some(table).
DvbS2xStrategy(arg) ==
    LET Validated(normalized) ==
            IF validate_table(normalized)
            THEN [error |-> FALSE, table |-> normalized]
            ELSE [error |-> TRUE, table |-> << >>]
    IN  IF IsNone(arg) THEN Validated(default_table)
        ELSE Validated([i \in 1..Len(Val(arg)) |-> normalize_entry(Val(arg)[i])])

\* The sort key of _sorted_entries.
threshold(e) ==
    IF NotNone(e.required_cn0_dbhz) THEN Val(e.required_cn0_dbhz)
    ELSE IF NotNone(e.required_ebno_db) THEN Val(e.required_ebno_db)
    ELSE Infinity

\* sorted() is stable: e goes after every entry whose key is <= its own.
RECURSIVE InsertSorted(_, _)
InsertSorted(sorted, e) ==
    IF sorted = << >> THEN << e >>
    ELSE IF threshold(e) < threshold(Head(sorted))
         THEN << e >> \o sorted
         ELSE << Head(sorted) >> \o InsertSorted(Tail(sorted), e)

RECURSIVE SortFrom(_, _, _)
SortFrom(table, i, acc) ==
    IF i > Len(table) THEN acc ELSE SortFrom(table, i + 1, InsertSorted(acc, table[i]))

sorted_entries(table) == SortFrom(table, 1, << >>)

\* _resolve_rolloff: the argument, else the entry's own, else the default;
\* never negative.
resolve_rolloff(entry, rolloff) ==
    IF NotNone(rolloff) THEN Max(Val(rolloff), 0)
    ELSE IF NotNone(entry.rolloff) THEN Max(Val(entry.rolloff), 0)
    ELSE Max(default_rolloff, 0)

\* info_bits / (1 + alpha), in thousandths.
effective_spectral_efficiency(entry, rolloff) ==
    (Val(entry.info_bits_per_symbol) * 1000) \div (100 + resolve_rolloff(entry, rolloff))

\* max(bandwidth_hz * eff, 1.0), or None without a bandwidth.
bitrate_bps(entry, bandwidth_hz, rolloff) ==
    IF IsNone(bandwidth_hz) THEN None
    ELSE Some(Max((Val(bandwidth_hz) \div 1000) * effective_spectral_efficiency(entry, rolloff), 1))

required_cn0(entry, bandwidth_hz) == entry.required_cn0_dbhz

\* required_ebno as computed in select_modcod and select_modcod_with_margin.
required_ebno_of(entry, bitrate) ==
    IF NotNone(entry.required_cn0_dbhz)
    THEN Some(Val(entry.required_cn0_dbhz) - TenLog10(bitrate))
    ELSE entry.required_ebno_db

\* The test of one loop iteration of select_modcod: whether the entry clears
\* its threshold.
entry_clears(entry, cn0_dbhz, bandwidth_hz, rolloff) ==
    LET Enough(available_ebno, required_ebno) ==
            NotNone(required_ebno) /\ available_ebno >= Val(required_ebno)
        WithBitrate(bitrate) ==
            IF NotNone(bandwidth_hz) /\ NotNone(bitrate)
            THEN Enough(cn0_dbhz - TenLog10(Val(bitrate)),
                        required_ebno_of(entry, Val(bitrate)))
            ELSE /\ NotNone(required_cn0(entry, bandwidth_hz))
                 /\ cn0_dbhz >= Val(required_cn0(entry, bandwidth_hz))
    IN  WithBitrate(bitrate_bps(entry, bandwidth_hz, rolloff))

\* select_step with the loop stopping at the first entry that clears.
select_step_first_hit(entry, selected, cn0_dbhz, bandwidth_hz, rolloff) ==
    IF NotNone(selected) THEN selected
    ELSE IF entry_clears(entry, cn0_dbhz, bandwidth_hz, rolloff) THEN Some(entry)
    ELSE selected

\* One iteration of the loop of select_modcod: the new value of `selected`.
select_step(entry, selected, cn0_dbhz, bandwidth_hz, rolloff) ==
    IF entry_clears(entry, cn0_dbhz, bandwidth_hz, rolloff) THEN Some(entry)
    ELSE selected

RECURSIVE select_loop(_, _, _, _, _, _)
select_loop(entries, i, selected, cn0_dbhz, bandwidth_hz, rolloff) ==
    IF i > Len(entries) THEN selected
    ELSE select_loop(entries, i + 1,
                     select_step(entries[i], selected, cn0_dbhz, bandwidth_hz, rolloff),
                     cn0_dbhz, bandwidth_hz, rolloff)

\* select_modcod without the fallback to entries[0].
select_modcod_no_fallback(table, cn0_dbhz, bandwidth_hz, rolloff) ==
    select_loop(sorted_entries(table), 1, None, cn0_dbhz, bandwidth_hz, rolloff)

\* DvbS2xStrategy.select_modcod: Some(entry), or None for an empty table.
select_modcod(table, cn0_dbhz, bandwidth_hz, rolloff) ==
    LET OrFirst(entries, selected) ==
            IF NotNone(selected) THEN selected ELSE Some(entries[1])
        Select(entries) ==
            IF entries = << >> THEN None
            ELSE OrFirst(entries,
                         select_loop(entries, 1, None, cn0_dbhz, bandwidth_hz, rolloff))
    IN  Select(sorted_entries(table))

\* DvbS2xStrategy.select_modcod_with_margin: the 5-tuple as a record.
select_modcod_with_margin(table, cn0_dbhz, bandwidth_hz, rolloff) ==
    LET Result(entry, available_ebno, required_ebno, margin, bitrate) ==
            [ entry |-> entry, available_ebno |-> available_ebno,
              required_ebno |-> required_ebno, margin |-> margin, bitrate |-> bitrate ]
        WithEbno(sel, bitrate, available_ebno, required_ebno) ==
            IF IsNone(required_ebno)
            THEN Result(sel, Some(available_ebno), None, None, bitrate)
            ELSE Result(sel, Some(available_ebno), required_ebno,
                        Some(available_ebno - Val(required_ebno)), bitrate)
        WithBitrate(sel, bitrate) ==
            IF IsNone(bitrate)
            THEN Result(sel, None, required_cn0(Val(sel), bandwidth_hz), None, None)
            ELSE WithEbno(sel, bitrate, cn0_dbhz - TenLog10(Val(bitrate)),
                          required_ebno_of(Val(sel), Val(bitrate)))
        WithEntry(sel) ==
            IF IsNone(sel) THEN Result(None, None, None, None, None)
            ELSE WithBitrate(sel, bitrate_bps(Val(sel), bandwidth_hz, rolloff))
    IN  WithEntry(select_modcod(table, cn0_dbhz, bandwidth_hz, rolloff))


(***************************************************************************)
(* Overhead-based waveform: core/strategies/nr.py                          *)
(***************************************************************************)
default_overhead == 14

\* _resolve_overhead without the clamp to [0, 1].
nr_resolve_overhead_unclamped(entry, rolloff) ==
    IF NotNone(rolloff) THEN Val(rolloff)
    ELSE IF NotNone(entry.rolloff) THEN Val(entry.rolloff)
    ELSE default_overhead

\* _resolve_overhead: the argument, else the entry's own rolloff, else the
\* default; max(min(overhead, 1.0), 0.0).  Hundredths.
nr_resolve_overhead(entry, rolloff) ==
    IF NotNone(rolloff) THEN Max(Min(Val(rolloff), 100), 0)
    ELSE IF NotNone(entry.rolloff) THEN Max(Min(Val(entry.rolloff), 100), 0)
    ELSE Max(Min(default_overhead, 100), 0)

\* info_bits * (1 - overhead), in thousandths.  _info_bits_per_symbol is the
\* entry's info_bits_per_symbol, as in DvbS2xStrategy._info_bits_per_symbol.
nr_effective_spectral_efficiency(entry, rolloff) ==
    (Val(entry.info_bits_per_symbol) * (100 - nr_resolve_overhead(entry, rolloff))) \div 10
(***************************************************************************)
(* Geometry and propagation: services/calculation_service.py               *)
(* (_compute_elevation) and core/propagation.py.                           *)
(* Frequencies are carried in MHz.  CosTable[d + 1] is cos(d degrees)      *)
(* scaled by 10^4, d = 0..90.                                              *)
(***************************************************************************)
CosTable ==
    << 10000, 9998, 9994, 9986, 9976, 9962, 9945, 9925, 9903, 9877, 9848, 9816, 9781,
       9744, 9703, 9659, 9613, 9563, 9511, 9455, 9397, 9336, 9272, 9205, 9135, 9063,
       8988, 8910, 8829, 8746, 8660, 8572, 8480, 8387, 8290, 8192, 8090, 7986, 7880,
       7771, 7660, 7547, 7431, 7314, 7193, 7071, 6947, 6820, 6691, 6561, 6428, 6293,
       6157, 6018, 5878, 5736, 5592, 5446, 5299, 5150, 5000, 4848, 4695, 4540, 4384,
       4226, 4067, 3907, 3746, 3584, 3420, 3256, 3090, 2924, 2756, 2588, 2419, 2250,
       2079, 1908, 1736, 1564, 1392, 1219, 1045, 872, 698, 523, 349, 175, 0 >>

Abs(x) == IF x < 0 THEN -x ELSE x

\* Reduce an angle in degrees to -180..180.
WrapDeg(d) == ((d + 180) % 360) - 180

\* math.cos of whole degrees, scaled by 10^4.
Cos(d) ==
    LET a == Abs(WrapDeg(d))
    IN  IF a <= 90 THEN CosTable[a + 1] ELSE -CosTable[(180 - a) + 1]

\* math.sin of whole degrees, scaled by 10^4.
Sin(d) == Cos(90 - d)

RECURSIVE SqrtSearch(_, _, _)
SqrtSearch(n, lo, hi) ==
    IF lo >= hi THEN lo
    ELSE LET mid == (lo + hi + 1) \div 2
         IN  IF mid * mid <= n THEN SqrtSearch(n, mid, hi)
             ELSE SqrtSearch(n, lo, mid - 1)

\* math.sqrt of a non-negative integer below 2 * 10^9, rounded down.
Sqrt(n) == SqrtSearch(n, 0, 44000)

\* cos of the central angle between a station and the sub-satellite point,
\* scaled by 10^4 and kept within -1..1.
cos_central_angle(ground_lat_deg, ground_lon_deg, sat_lon_deg) ==
    Max(-10000, Min(10000,
        (Cos(ground_lat_deg) * Cos(sat_lon_deg - ground_lon_deg)) \div 10000))

\* The largest whole angle e, from `e` downwards, with
\* tan(e) <= (cos_psi - re / rs) / sin_psi; re / rs = 6378 / 42164.
ElevationFrom(e, cos_psi, sin_psi) ==
    LET Reached(x) ==
            x <= -90 \/ Cos(x) * (cos_psi - (6378 * 10000) \div 42164) >= Sin(x) * sin_psi
    IN  CHOOSE x \in -90..e : Reached(x) /\ \A y \in (x + 1)..e : ~ Reached(y)

\* CalculationService.calculate._compute_elevation: GEO elevation in whole
\* degrees, rounded down, for a station at sea level.
compute_elevation(sat_lon_deg, ground_lat_deg, ground_lon_deg) ==
    LET Elevation(cos_psi, sin_psi) ==
            IF sin_psi = 0 THEN 90 ELSE ElevationFrom(90, cos_psi, sin_psi)
        WithCos(cos_psi) == Elevation(cos_psi, Sqrt(100000000 - cos_psi * cos_psi))
    IN  WithCos(cos_central_angle(ground_lat_deg, ground_lon_deg, sat_lon_deg))

\* estimate_slant_range_km (spherical fallback), squared, in units of
\* 100 km^2: r_e^2 + r_s^2 - 2 r_e r_s cos(central angle) with
\* r_e = 6371 km and r_s = 6371 + 35786 km.
slant_range_sq(ground_lat_deg, ground_lon_deg, sat_longitude_deg) ==
    (6371 * 6371 + (6371 + 35786) * (6371 + 35786)) \div 100
      - (((2 * 6371 * (6371 + 35786)) \div 10000)
            * cos_central_angle(ground_lat_deg, ground_lon_deg, sat_longitude_deg)) \div 100

\* free_space_path_loss_db: 20 log10(d_m) + 20 log10(f_Hz) + 20 log10(4 pi / c),
\* the last term being -147.6 dB.
free_space_path_loss_db(frequency_mhz, range_sq) ==
    (TenLog10(range_sq) + 200 + 600) + (2 * TenLog10(frequency_mhz) + 1200) - 1476

\* pointing_loss_db: 0.1 dB above 20 degrees of elevation, 0.5 dB otherwise.
pointing_loss_db(elevation_deg) == IF elevation_deg > 20 THEN 1 ELSE 5

(***************************************************************************)
(* Persistence: what the repositories return for the ids of the model.     *)
(***************************************************************************)
Satellite(longitude_deg, eirp_dbw, gt_db_per_k) ==
    [ longitude_deg |-> longitude_deg, eirp_dbw |-> eirp_dbw, gt_db_per_k |-> gt_db_per_k ]

EarthStation(eirp_dbw, tx_power_dbw, antenna_gain_tx_db, gt_db_per_k, antenna_gain_rx_db, noise_temperature_k) ==
    [ eirp_dbw |-> eirp_dbw, tx_power_dbw |-> tx_power_dbw,
      antenna_gain_tx_db |-> antenna_gain_tx_db, gt_db_per_k |-> gt_db_per_k,
      antenna_gain_rx_db |-> antenna_gain_rx_db,
      noise_temperature_k |-> noise_temperature_k ]

\* satellite_repo.get: None for an unknown id.
satellite_repo_get(sat_id) ==
    CASE sat_id = "sat-full"  -> Some(Satellite(Some(10), Some(500), Some(50)))
      [] sat_id = "sat-bare"  -> Some(Satellite(Some(10), None, None))
      [] sat_id = "sat-nolon" -> Some(Satellite(None, Some(480), Some(30)))
      [] OTHER -> None

\* earth_station_repo.get: None for an unknown id.
earth_station_repo_get(es_id) ==
    CASE es_id = "es-stored" ->
            Some(EarthStation(Some(650), Some(150), Some(450), Some(250), Some(400), Some(200)))
      [] es_id = "es-parts" ->
            Some(EarthStation(None, Some(150), Some(450), None, Some(400), Some(200)))
      [] es_id = "es-power" ->
            Some(EarthStation(None, Some(620), None, None, Some(400), Some(0)))
      [] es_id = "es-none" ->
            Some(EarthStation(None, None, None, None, None, None))
      [] OTHER -> None

\* modcod_repo.get: the entries of the stored table (JSON dictionaries), None
\* for an unknown id; raised is TRUE when the repository call fails.
modcod_repo_get(table_id) ==
    CASE table_id = "tbl-cn0" ->
            [ raised |-> FALSE, table |-> Some(
                << ModcodEntry("qpsk-1/2", "dict", "QPSK", <<1, 2>>, Some(860), None, Some(100), None),
                   ModcodEntry("8psk-3/4", "dict", "8PSK", <<3, 4>>, Some(900), None, Some(225), None),
                   ModcodEntry("16apsk-3/4", "dict", "16APSK", <<3, 4>>, Some(930), None, Some(300), None) >>) ]
      [] table_id = "tbl-ebno" ->
            [ raised |-> FALSE, table |-> Some(
                << ModcodEntry("e-8psk-2/3", "dict", "8PSK", <<2, 3>>, None, Some(150), None, None),
                   ModcodEntry("e-qpsk-1/2", "dict", "QPSK", <<1, 2>>, None, Some(100), Some(100), None) >>) ]
      [] table_id = "tbl-empty" -> [ raised |-> FALSE, table |-> Some(<< >>) ]
      [] table_id = "tbl-bad" ->
            [ raised |-> FALSE, table |-> Some(
                << ModcodEntry("bad", "dict", "CUSTOM", <<1, 2>>, Some(700), None, Some(0), None) >>) ]
      [] table_id = "tbl-down" -> [ raised |-> TRUE, table |-> None ]
      [] OTHER -> [ raised |-> FALSE, table |-> None ]

(***************************************************************************)
(* CalculationService: services/calculation_service.py                     *)
(***************************************************************************)
\* Python truthiness of an optional number: None and 0 are falsy.  (The ids
\* of a request are UUIDs, truthy whenever present.)
Truthy(x) == NotNone(x) /\ Val(x) # 0

\* a or b
Or(a, b) == IF Truthy(a) THEN a ELSE b

HTTPException(status_code, detail) ==
    [ ok |-> FALSE, status_code |-> status_code, detail |-> detail ]

\* A step that went through, with the locals it leaves behind.
Continue(locals) == [ ok |-> TRUE, locals |-> locals ]

\* CommunicationContext(): the dataclass defaults.
CommunicationContext ==
    [ uplink_tx_eirp_dbw |-> 500, uplink_rx_gt_db_per_k |-> 200,
      downlink_tx_eirp_dbw |-> 500, downlink_rx_gt_db_per_k |-> 250 ]

\* CalculationService._fetch_modcod.
fetch_modcod(modcod_table_id) ==
    LET Built(table, waveform) ==
            IF waveform.error
            THEN HTTPException(400, "ModCod table entries are invalid")
            ELSE [ ok |-> TRUE, table |-> table, waveform |-> Some(waveform) ]
        Fetched(got) ==
            IF got.raised
            THEN HTTPException(503, "Failed to fetch ModCod table from database")
            ELSE IF IsNone(got.table)
            THEN [ ok |-> TRUE, table |-> None, waveform |-> None ]
            ELSE Built(got.table, DvbS2xStrategy(got.table))
    IN  IF IsNone(modcod_table_id)
        THEN [ ok |-> TRUE, table |-> None, waveform |-> None ]
        ELSE Fetched(modcod_repo_get(Val(modcod_table_id)))

\* The local variables of calculate() before its first statement.
NoLocals ==
    [ sat |-> None, tx_es |-> None, rx_es |-> None,
      common_modcod_table |-> None,
      uplink_modcod_table |-> None, downlink_modcod_table |-> None,
      uplink_waveform |-> None, downlink_waveform |-> None,
      shared_bandwidth |-> None, sat_longitude |-> None,
      uplink_params |-> None, downlink_params |-> None,
      uplink |-> None, downlink |-> None,
      ul_clean_cn |-> None, dl_clean_cn |-> None ]

\* Lines 75-81: the three asset lookups.
fetch_assets(p, l) ==
    [ l EXCEPT
        !.tx_es = IF NotNone(p.earth_station_tx_id)
                  THEN earth_station_repo_get(Val(p.earth_station_tx_id)) ELSE None,
        !.rx_es = IF NotNone(p.earth_station_rx_id)
                  THEN earth_station_repo_get(Val(p.earth_station_rx_id)) ELSE None,
        !.sat   = IF NotNone(p.satellite_id)
                  THEN satellite_repo_get(Val(p.satellite_id)) ELSE None ]

\* Lines 91-103, Transparent branch: the common table is mandatory and
\* becomes the waveform of the shared communication strategy.
resolve_waveforms_transparent(p, l, common) ==
    IF IsNone(p.modcod_table_id)
    THEN HTTPException(400, "modcod_table_id is required for Transparent transponders")
    ELSE IF IsNone(common.table)
    THEN HTTPException(404, "ModCod table not found")
    ELSE Continue([ l EXCEPT !.common_modcod_table = common.table,
                             !.uplink_modcod_table = common.table,
                             !.downlink_modcod_table = common.table,
                             !.uplink_waveform = common.waveform,
                             !.downlink_waveform = common.waveform ])

\* waveform or DvbS2xStrategy() (lines 113-114).
waveform_or_default(waveform) ==
    IF NotNone(waveform) THEN waveform ELSE Some(DvbS2xStrategy(None))

\* Lines 105-114, Regenerative branch: one table per direction, the built-in
\* table when a direction names none.
resolve_waveforms_regenerative(p, l, common) ==
    LET Both(up, down) ==
            IF NotNone(p.uplink_modcod_table_id) /\ IsNone(up.table)
            THEN HTTPException(404, "Uplink ModCod table not found")
            ELSE IF NotNone(p.downlink_modcod_table_id) /\ IsNone(down.table)
            THEN HTTPException(404, "Downlink ModCod table not found")
            ELSE Continue([ l EXCEPT
                   !.common_modcod_table = common.table,
                   !.uplink_modcod_table = up.table,
                   !.downlink_modcod_table = down.table,
                   !.uplink_waveform = waveform_or_default(up.waveform),
                   !.downlink_waveform = waveform_or_default(down.waveform) ])
        AfterDownlink(up, down) == IF ~ down.ok THEN down ELSE Both(up, down)
        AfterUplink(up) ==
            IF ~ up.ok THEN up
            ELSE AfterDownlink(up, fetch_modcod(p.downlink_modcod_table_id))
    IN  AfterUplink(fetch_modcod(p.uplink_modcod_table_id))

\* Lines 83-114.
resolve_waveforms(p, l) ==
    LET AfterCommon(common) ==
            IF ~ common.ok THEN common
            ELSE IF p.transponder_type = "TRANSPARENT"
            THEN resolve_waveforms_transparent(p, l, common)
            ELSE resolve_waveforms_regenerative(p, l, common)
    IN  AfterCommon(fetch_modcod(p.modcod_table_id))

\* Lines 116-121.
check_assets(p, l) ==
    IF NotNone(p.satellite_id) /\ IsNone(l.sat)
    THEN HTTPException(404, "Satellite not found")
    ELSE IF NotNone(p.earth_station_tx_id) /\ IsNone(l.tx_es)
    THEN HTTPException(404, "Earth station (tx) not found")
    ELSE IF NotNone(p.earth_station_rx_id) /\ IsNone(l.rx_es)
    THEN HTTPException(404, "Earth station (rx) not found")
    ELSE Continue(l)

\* bandwidth_mismatch that lets every per-direction bandwidth pass.
bandwidth_mismatch_ignored(direction_data, shared_bandwidth) == FALSE

\* Lines 133-139, one turn of the loop over (uplink_data, downlink_data):
\* TRUE when the direction's own bandwidth contradicts the shared one.
bandwidth_mismatch(direction_data, shared_bandwidth) ==
    /\ Truthy(direction_data.bandwidth_hz)
    /\ direction_data.bandwidth_hz # shared_bandwidth

\* Lines 129-139, Transparent: one bandwidth for both directions, written
\* into each direction dictionary as the loop passes it.
resolve_bandwidth_transparent(runtime_data, shared_bandwidth) ==
    IF IsNone(shared_bandwidth)
    THEN HTTPException(400, "bandwidth_hz is required for Transparent transponders")
           @@ [ runtime |-> runtime_data ]
    ELSE IF bandwidth_mismatch(runtime_data.uplink, shared_bandwidth)
    THEN HTTPException(400, "Transparent transponders use a common bandwidth_hz for uplink and downlink")
           @@ [ runtime |-> runtime_data ]
    ELSE IF bandwidth_mismatch(runtime_data.downlink, shared_bandwidth)
    THEN HTTPException(400, "Transparent transponders use a common bandwidth_hz for uplink and downlink")
           @@ [ runtime |-> [ runtime_data EXCEPT !.uplink.bandwidth_hz = shared_bandwidth ] ]
    ELSE [ ok |-> TRUE, shared_bandwidth |-> shared_bandwidth,
           runtime |-> [ runtime_data EXCEPT !.uplink.bandwidth_hz = shared_bandwidth,
                                             !.downlink.bandwidth_hz = shared_bandwidth ] ]

\* Lines 126-141: the bandwidth rule.  The result carries the runtime block
\* as the handler leaves it.
resolve_bandwidth(p) ==
    IF p.transponder_type = "TRANSPARENT"
    THEN resolve_bandwidth_transparent(
             p.runtime,
             Or(Or(p.runtime.bandwidth_hz, p.runtime.uplink.bandwidth_hz),
                p.runtime.downlink.bandwidth_hz))
    ELSE IF NotNone(p.runtime.bandwidth_hz)
    THEN HTTPException(400, "Regenerative transponders require per-link bandwidth_hz values")
           @@ [ runtime |-> p.runtime ]
    ELSE [ ok |-> TRUE, shared_bandwidth |-> p.runtime.bandwidth_hz, runtime |-> p.runtime ]

\* Line 143: runtime sat_longitude_deg, or else the asset's longitude.
resolve_sat_longitude(p, l) ==
    IF Truthy(p.runtime.sat_longitude_deg) THEN p.runtime.sat_longitude_deg
    ELSE IF NotNone(l.sat) THEN Val(l.sat).longitude_deg
    ELSE None

\* LinkDirectionParameters, as far as the link budget reads it.
LinkDirectionParameters(frequency_hz, bandwidth_hz, elevation_deg, rain_rate_mm_per_hr, ground_lat_deg, ground_lon_deg) ==
    [ frequency_hz |-> frequency_hz, bandwidth_hz |-> bandwidth_hz,
      elevation_deg |-> elevation_deg, rain_rate_mm_per_hr |-> rain_rate_mm_per_hr,
      ground_lat_deg |-> ground_lat_deg, ground_lon_deg |-> ground_lon_deg ]

\* direction_elevation with a sub-horizon value raised to the horizon.
direction_elevation_clamped(primary, sat_longitude) ==
    Max(0, IF NotNone(primary.elevation_deg) THEN Val(primary.elevation_deg)
           ELSE compute_elevation(sat_longitude, Val(primary.ground_lat_deg),
                                  Val(primary.ground_lon_deg)))

\* The elevation _build_direction works with: the supplied one, else the
\* computed one (lines 218-220).
direction_elevation(primary, sat_longitude) ==
    IF NotNone(primary.elevation_deg) THEN Val(primary.elevation_deg)
    ELSE compute_elevation(sat_longitude, Val(primary.ground_lat_deg),
                           Val(primary.ground_lon_deg))

\* calculate._build_direction (lines 202-237).
build_direction(primary, direction, sat_longitude) ==
    LET WithElevation(elev) ==
            IF elev < 0
            THEN HTTPException(400,
                   IF direction = "uplink"
                   THEN "Computed elevation for uplink is below horizon"
                   ELSE "Computed elevation for downlink is below horizon")
            ELSE [ ok |-> TRUE,
                   params |-> LinkDirectionParameters(
                       Val(primary.frequency_hz), Val(primary.bandwidth_hz), elev,
                       primary.rain_rate_mm_per_hr,
                       Val(primary.ground_lat_deg), Val(primary.ground_lon_deg)) ]
    IN  IF \/ IsNone(primary.frequency_hz) \/ IsNone(primary.bandwidth_hz)
           \/ IsNone(primary.ground_lat_deg) \/ IsNone(primary.ground_lon_deg)
        THEN HTTPException(400, "frequency_hz, bandwidth_hz, and ground coordinates are required in runtime")
        ELSE WithElevation(direction_elevation(primary, sat_longitude))

\* Lines 143-145 and 239-240: satellite longitude, then both directions.
build_directions(p, l) ==
    LET Both(sat_longitude, up, down) ==
            IF ~ down.ok THEN down
            ELSE Continue([ l EXCEPT !.sat_longitude = sat_longitude,
                                     !.uplink_params = Some(up.params),
                                     !.downlink_params = Some(down.params) ])
        AfterUplink(sat_longitude, up) ==
            IF ~ up.ok THEN up
            ELSE Both(sat_longitude, up,
                      build_direction(p.runtime.downlink, "downlink", Val(sat_longitude)))
        WithLongitude(sat_longitude) ==
            IF IsNone(sat_longitude)
            THEN HTTPException(400, "Satellite longitude is required")
            ELSE AfterUplink(sat_longitude,
                             build_direction(p.runtime.uplink, "uplink", Val(sat_longitude)))
    IN  WithLongitude(resolve_sat_longitude(p, l))

\* getattr(station, key, None) on an asset that may be None.
Attr(asset, key) == IF IsNone(asset) THEN None ELSE Val(asset)[key]

\* calculate._value_with_override.
value_with_override(override, station, key) ==
    IF NotNone(override[key]) THEN override[key] ELSE Attr(station, key)

\* resolve_tx_eirp with the component sum taking precedence over the stored
\* EIRP.
resolve_tx_eirp_derived_first(tx_es) ==
    IF NotNone(Attr(tx_es, "tx_power_dbw")) /\ NotNone(Attr(tx_es, "antenna_gain_tx_db"))
    THEN Some(Val(Attr(tx_es, "tx_power_dbw")) + Val(Attr(tx_es, "antenna_gain_tx_db")))
    ELSE IF NotNone(Attr(tx_es, "eirp_dbw")) THEN Attr(tx_es, "eirp_dbw")
    ELSE Attr(tx_es, "tx_power_dbw")

\* Lines 253-259: the transmit station's EIRP.
resolve_tx_eirp(tx_es) ==
    LET Resolve(tx_eirp, tx_gain, tx_power) ==
            IF IsNone(tx_eirp) /\ NotNone(tx_power) /\ NotNone(tx_gain)
            THEN Some(Val(tx_power) + Val(tx_gain))
            ELSE IF IsNone(tx_eirp) /\ NotNone(tx_power) THEN tx_power
            ELSE tx_eirp
    IN  Resolve(Attr(tx_es, "eirp_dbw"), Attr(tx_es, "antenna_gain_tx_db"),
                Attr(tx_es, "tx_power_dbw"))

\* resolve_rx_gt falling back on the dataclass default.
resolve_rx_gt_assumed(rx_es) ==
    IF NotNone(Attr(rx_es, "gt_db_per_k")) THEN Attr(rx_es, "gt_db_per_k")
    ELSE Some(250)

\* Lines 275-280: the receive station's G/T.
resolve_rx_gt(rx_es) ==
    LET Resolve(rx_gt, rx_gain, rx_temp) ==
            IF NotNone(rx_gt) THEN rx_gt
            ELSE IF NotNone(rx_gain) /\ NotNone(rx_temp) /\ Val(rx_temp) > 0
            THEN Some(Val(rx_gain) - TenLog10(Val(rx_temp)))
            ELSE None
    IN  Resolve(Attr(rx_es, "gt_db_per_k"), Attr(rx_es, "antenna_gain_rx_db"),
                Attr(rx_es, "noise_temperature_k"))

\* The context after the assignments made so far (an absent value leaves the
\* dataclass default in place).
context_with(tx_eirp, sat_gt, rx_gt, sat_eirp) ==
    [ uplink_tx_eirp_dbw |-> IF NotNone(tx_eirp) THEN Val(tx_eirp)
                             ELSE CommunicationContext.uplink_tx_eirp_dbw,
      uplink_rx_gt_db_per_k |-> IF NotNone(sat_gt) THEN Val(sat_gt)
                                ELSE CommunicationContext.uplink_rx_gt_db_per_k,
      downlink_tx_eirp_dbw |-> IF NotNone(sat_eirp) THEN Val(sat_eirp)
                               ELSE CommunicationContext.downlink_tx_eirp_dbw,
      downlink_rx_gt_db_per_k |-> IF NotNone(rx_gt) THEN Val(rx_gt)
                                  ELSE CommunicationContext.downlink_rx_gt_db_per_k ]

\* resolve_context with the four checks left out: whatever cannot be resolved
\* stays at the dataclass default and the request goes on to the strategy.
resolve_context_lenient(p, l) ==
    [ ok |-> TRUE,
      context |-> context_with(resolve_tx_eirp(l.tx_es),
                               value_with_override(p.overrides.satellite, l.sat, "gt_db_per_k"),
                               resolve_rx_gt(l.rx_es),
                               value_with_override(p.overrides.satellite, l.sat, "eirp_dbw")) ]

\* Lines 249-295: every field of the fresh context is overwritten, or the
\* request is refused at the first value that cannot be resolved.
resolve_context(p, l) ==
    LET Resolve(tx_eirp, sat_gt, rx_gt, sat_eirp) ==
            IF IsNone(tx_eirp)
            THEN HTTPException(400, "TX earth station EIRP is required")
                   @@ [ context |-> context_with(None, None, None, None) ]
            ELSE IF IsNone(sat_gt)
            THEN HTTPException(400, "Satellite G/T is required")
                   @@ [ context |-> context_with(tx_eirp, None, None, None) ]
            ELSE IF IsNone(rx_gt)
            THEN HTTPException(400, "RX earth station G/T is required")
                   @@ [ context |-> context_with(tx_eirp, sat_gt, None, None) ]
            ELSE IF IsNone(sat_eirp)
            THEN HTTPException(400, "Satellite EIRP is required")
                   @@ [ context |-> context_with(tx_eirp, sat_gt, rx_gt, None) ]
            ELSE [ ok |-> TRUE, context |-> context_with(tx_eirp, sat_gt, rx_gt, sat_eirp) ]
    IN  Resolve(resolve_tx_eirp(l.tx_es),
                value_with_override(p.overrides.satellite, l.sat, "gt_db_per_k"),
                resolve_rx_gt(l.rx_es),
                value_with_override(p.overrides.satellite, l.sat, "eirp_dbw"))

\* rain_loss_db falling as the rain rate rises.
rain_loss_db_falling(rain_rate_mm_per_hr, elevation_deg) ==
    IF rain_rate_mm_per_hr <= 0 THEN 100 ELSE 0

\* rain_loss_db: nothing without rain, else the ITU-R P.618 attenuation (a
\* library value, tabulated here: it grows with the rain rate and is
\* larger on a low path).
rain_loss_db(rain_rate_mm_per_hr, elevation_deg) ==
    IF rain_rate_mm_per_hr <= 0 THEN 0
    ELSE IF elevation_deg > 20 THEN rain_rate_mm_per_hr \div 2
    ELSE rain_rate_mm_per_hr

\* gas_loss_db: the ITU-R P.676 attenuation (a library value, tabulated).
gas_loss_db(frequency_hz, elevation_deg) == IF elevation_deg > 20 THEN 2 ELSE 6

\* cloud_loss_db: the ITU-R P.840 attenuation (a library value, tabulated).
cloud_loss_db(frequency_hz, elevation_deg) == IF elevation_deg > 20 THEN 3 ELSE 8

\* Boltzmann constant in dBW/K/Hz (-228.6).
KB == -2286

\* compute_link_budget.
compute_link_budget(inputs) ==
    LET Stats(fspl, rain, gas, cloud, pointing, cn0) ==
            [ fspl_db |-> fspl, rain_loss_db |-> rain, gas_loss_db |-> gas,
              cloud_loss_db |-> cloud,
              atm_loss_db |-> fspl + rain + gas + cloud + pointing,
              antenna_pointing_loss_db |-> pointing,
              gt_db_per_k |-> inputs.rx_gt_db_per_k,
              cn0_dbhz |-> cn0,
              cn_db |-> cn0 - TenLog10(inputs.bandwidth_hz),
              link_margin_db |-> Some(cn0 - TenLog10(inputs.bandwidth_hz)) ]
        Losses(fspl, rain, gas, cloud, pointing) ==
            Stats(fspl, rain, gas, cloud, pointing,
                  inputs.tx_eirp_dbw + inputs.rx_gt_db_per_k
                     - (fspl + rain + gas + cloud + pointing) - KB)
    IN  Losses(free_space_path_loss_db(
                   inputs.frequency_hz,
                   slant_range_sq(inputs.ground_lat_deg, inputs.ground_lon_deg,
                                  inputs.sat_longitude_deg)),
               rain_loss_db(inputs.rain_rate_mm_per_hr, inputs.elevation_deg),
               gas_loss_db(inputs.frequency_hz, inputs.elevation_deg),
               cloud_loss_db(inputs.frequency_hz, inputs.elevation_deg),
               pointing_loss_db(inputs.elevation_deg))

\* TransparentCommunicationStrategy.calculate: the CalculationResult of one
\* direction, from the context held by the strategy.
strategy_calculate(context, l, direction) ==
    LET Result(params, tx_eirp, rx_gt) ==
            compute_link_budget(
                params @@ [ tx_eirp_dbw |-> tx_eirp, rx_gt_db_per_k |-> rx_gt,
                            sat_longitude_deg |-> Val(l.sat_longitude) ])
              @@ [ direction |-> direction, modcod_selected |-> None,
                   eirp_dbw |-> tx_eirp, bandwidth_hz |-> params.bandwidth_hz,
                   clean_link_margin_db |-> None, clean_cn_db |-> None,
                   cni_db |-> None, cni0_dbhz |-> None, c_im_db |-> None,
                   interference_applied |-> FALSE, intermod_applied |-> FALSE,
                   warnings |-> None ]
    IN  IF direction = "uplink"
        THEN Result(Val(l.uplink_params), context.uplink_tx_eirp_dbw,
                    context.uplink_rx_gt_db_per_k)
        ELSE Result(Val(l.downlink_params), context.downlink_tx_eirp_dbw,
                    context.downlink_rx_gt_db_per_k)

\* 1 / 10 ** (value / 10) of an optional C/I, nothing for None (lines 155-161).
inverse_term(value) == IF IsNone(value) THEN 0 ELSE InvLin(Val(value))

\* calculate._interference_inputs: I/C (scaled by 10^8), the aggregate C/I
\* and the applied flag.
interference_inputs(direction_data) ==
    LET Inputs(block, i_over_c) ==
            [ i_over_c |-> i_over_c,
              aggregate_ci_db |-> IF i_over_c > 0 THEN Some(DbOfInv(i_over_c)) ELSE None,
              applied |-> \/ block.applied
                          \/ NotNone(block.adjacent_sat_ci_db)
                          \/ NotNone(block.cross_polar_ci_db)
                          \/ NotNone(block.other_carrier_ci_db) ]
    IN  Inputs(direction_data.interference,
               inverse_term(direction_data.interference.adjacent_sat_ci_db)
                 + inverse_term(direction_data.interference.cross_polar_ci_db)
                 + inverse_term(direction_data.interference.other_carrier_ci_db))

\* calculate._estimate_c_im: max(0, 2 * backoff + 7 - 10 log10(carriers)).
estimate_c_im(intermod_block) ==
    LET Estimate(carriers, backoff) ==
            IF IsNone(backoff) \/ IsNone(carriers) \/ Val(carriers) < 1
            THEN [ c_im_db |-> None, applied |-> FALSE ]
            ELSE [ c_im_db |-> Some(Max(0, 2 * Val(backoff) + 70 - TenLog10(Val(carriers)))),
                   applied |-> TRUE ]
    IN  IF IsNone(intermod_block) THEN [ c_im_db |-> None, applied |-> FALSE ]
        ELSE Estimate(Val(intermod_block).composite_carriers,
                      IF NotNone(Val(intermod_block).output_backoff_db)
                      THEN Val(intermod_block).output_backoff_db
                      ELSE Val(intermod_block).input_backoff_db)

\* Lines 328-329 in binary64: cn_lin = 10 ** (base_cn / 10) raises
\* OverflowError above 10^308.25, and is 0.0 below 10^-323.6, where
\* thermal_term = 1 / cn_lin raises ZeroDivisionError.  None when neither is
\* raised (cn_db in tenths of a dB).
thermal_term_error(result, bandwidth_hz) ==
    IF bandwidth_hz = 0 THEN None
    ELSE IF result.cn_db >= 30826 THEN Some("OverflowError")
    ELSE IF result.cn_db <= -32361 THEN Some("ZeroDivisionError")
    ELSE None

\* The two messages of lines 369-375: the ratio applied and the degradation
\* that is reported with it.
ImpairmentWarning(kind, ratio_db, degraded_by_db) ==
    [ kind |-> kind, ratio_db |-> ratio_db, degraded_by_db |-> degraded_by_db ]

\* Lines 362-376: the warnings of the result, then one message per
\* impairment that was applied.
impairment_warnings(result, base_cn, aggregate_ci_db) ==
    (IF NotNone(result.warnings) THEN Val(result.warnings) ELSE << >>)
      \o (IF result.interference_applied /\ NotNone(aggregate_ci_db) /\ NotNone(result.cni_db)
          THEN << ImpairmentWarning("Interference applied", Val(aggregate_ci_db),
                                    base_cn - Val(result.cni_db)) >>
          ELSE << >>)
      \o (IF result.intermod_applied /\ NotNone(result.c_im_db)
          THEN << ImpairmentWarning("Intermodulation applied", Val(result.c_im_db),
                                    base_cn - result.cn_db) >>
          ELSE << >>)

\* calculate._apply_impairments, the copy of core/impairments.py
\* apply_impairments (a bandwidth of 0 stands for a falsy one).
apply_impairments(result, bandwidth_hz, interference, apply_intermod, c_im_db_value) ==
    LET Warned(updated) ==
            [ updated EXCEPT !.warnings = Some(impairment_warnings(updated, result.cn_db,
                                                                   interference.aggregate_ci_db)) ]
        Updated(cni_db, cn_db_effective, with_intermod) ==
            [ result EXCEPT
                !.cni_db = Some(cni_db),
                !.cni0_dbhz = IF interference.i_over_c > 0
                              THEN Some(cni_db + TenLog10(bandwidth_hz))
                              ELSE Some(result.cn0_dbhz),
                !.c_im_db = IF with_intermod THEN c_im_db_value ELSE @,
                !.intermod_applied = IF with_intermod THEN TRUE ELSE @,
                !.cn_db = cn_db_effective,
                !.cn0_dbhz = cn_db_effective + TenLog10(bandwidth_hz),
                !.link_margin_db = IF NotNone(@)
                                   THEN Some(Val(@) + (cn_db_effective - result.cn_db))
                                   ELSE @,
                !.interference_applied = interference.applied \/ interference.i_over_c > 0 ]
        Terms(thermal_term, interference_term, intermod_term, with_intermod) ==
            Warned(Updated(IF interference_term > 0
                           THEN DbOfInv(thermal_term + interference_term) ELSE result.cn_db,
                           DbOfInv(thermal_term + interference_term + intermod_term),
                           with_intermod))
    IN  IF bandwidth_hz = 0 THEN result
        ELSE Terms(InvLin(result.cn_db),
                   IF interference.i_over_c > 0 THEN interference.i_over_c ELSE 0,
                   IF apply_intermod /\ Truthy(c_im_db_value) THEN InvLin(Val(c_im_db_value)) ELSE 0,
                   apply_intermod /\ Truthy(c_im_db_value))

\* The exception that escapes the two _apply_impairments calls (uplink
\* first), or None.
impairments_error(l) ==
    IF NotNone(thermal_term_error(Val(l.uplink), Val(l.uplink).bandwidth_hz))
    THEN thermal_term_error(Val(l.uplink), Val(l.uplink).bandwidth_hz)
    ELSE thermal_term_error(Val(l.downlink), Val(l.downlink).bandwidth_hz)

\* Lines 308-399: impairments of both directions; intermodulation only ever
\* reaches the downlink.
apply_all_impairments(p, l) ==
    LET Impaired(uplink, downlink, intermod) ==
            [ l EXCEPT
                !.ul_clean_cn = Some(uplink.cn_db),
                !.dl_clean_cn = Some(downlink.cn_db),
                !.uplink = Some([ apply_impairments(
                                      uplink, uplink.bandwidth_hz,
                                      interference_inputs(p.runtime.uplink),
                                      FALSE, intermod.c_im_db)
                                    EXCEPT !.clean_cn_db = Some(uplink.cn_db) ]),
                !.downlink = Some([ apply_impairments(
                                        downlink, downlink.bandwidth_hz,
                                        interference_inputs(p.runtime.downlink),
                                        intermod.applied, intermod.c_im_db)
                                      EXCEPT !.clean_cn_db = Some(downlink.cn_db) ]) ]
    IN  Impaired(Val(l.uplink), Val(l.downlink), estimate_c_im(p.runtime.intermodulation))

\* combine_cn_db returning the uplink value alone.
combine_cn_db_uplink_only(ul_cn, dl_cn) == ul_cn

\* combine_cn_db returning the stronger of the two.
combine_cn_db_max(ul_cn, dl_cn) == Max(ul_cn, dl_cn)

\* combine_cn_db returning the weaker of the two.
combine_cn_db_min(ul_cn, dl_cn) == Min(ul_cn, dl_cn)

\* calculate._combine_cn_db: reciprocal sum of the two linear ratios.
combine_cn_db(ul_cn, dl_cn) == DbOfInv(InvLin(ul_cn) + InvLin(dl_cn))

\* One call of select_modcod_with_margin as the service makes it: the
\* strategy it is made on, its arguments and what it returned.
SelectCall(on, waveform, cn0_dbhz, bandwidth_hz, rolloff) ==
    [ on |-> on, table |-> waveform.table, cn0_dbhz |-> cn0_dbhz,
      bandwidth_hz |-> bandwidth_hz, rolloff |-> rolloff,
      returned |-> select_modcod_with_margin(waveform.table, cn0_dbhz,
                                             Some(bandwidth_hz), rolloff) ]

\* with_selection with every direction given the margin of the selection
\* itself, whatever the direction's own C/N0.
with_selection_shared_margin(result, sel, cn0_dbhz) ==
    [ result EXCEPT
        !.modcod_selected = IF NotNone(sel.entry) THEN Some(Val(sel.entry).id) ELSE @,
        !.link_margin_db = IF NotNone(sel.margin) THEN sel.margin ELSE @ ]

\* Lines 498-513 and 547-555: what a selection writes into a direction's
\* result.  cn0_dbhz is the C/N0 the direction's margin is taken from.
with_selection(result, sel, cn0_dbhz) ==
    [ result EXCEPT
        !.modcod_selected = IF NotNone(sel.entry) THEN Some(Val(sel.entry).id) ELSE @,
        !.link_margin_db =
            IF NotNone(sel.required_ebno) /\ Truthy(sel.bitrate)
            THEN Some(cn0_dbhz - TenLog10(Val(sel.bitrate)) - Val(sel.required_ebno))
            ELSE IF NotNone(sel.margin) THEN sel.margin
            ELSE @ ]

\* Lines 477-535: Transparent.  One selection on the strategy's waveform
\* against the combined C/N0.
combine_transparent(p, l, waveform) ==
    LET Response(uplink, downlink, bandwidth, cn_db, cni_db, clean_cn, call) ==
            [ calls |-> << call >>,
              response |->
                [ status_code |-> 200,
                  transponder_type |-> p.transponder_type,
                  runtime_echo |-> [ sat_longitude_deg |-> l.sat_longitude ],
                  results |->
                    [ uplink |-> with_selection(uplink, call.returned, uplink.cn0_dbhz),
                      downlink |-> with_selection(downlink, call.returned, downlink.cn0_dbhz),
                      combined |-> Some(
                        [ cn_db |-> cn_db,
                          cn0_dbhz |-> call.cn0_dbhz,
                          cni_db |-> cni_db,
                          cni0_dbhz |-> cni_db + TenLog10(bandwidth),
                          c_im_db |-> downlink.c_im_db,
                          link_margin_db |-> call.returned.margin,
                          clean_link_margin_db |->
                            IF NotNone(call.returned.margin)
                            THEN Some(Val(call.returned.margin) + (clean_cn - cn_db))
                            ELSE None,
                          clean_cn_db |-> IF NotNone(call.returned.margin)
                                          THEN Some(clean_cn) ELSE None ]) ],
                  combined_link_margin_db |-> call.returned.margin,
                  combined_cn_db |-> Some(cn_db),
                  combined_cn0_dbhz |-> Some(call.cn0_dbhz),
                  modcod_selected |->
                    IF NotNone(call.returned.entry)
                    THEN Some([ id |-> Val(call.returned.entry).id ]) ELSE None ] ]
        Combined(uplink, downlink, bandwidth, cn_db) ==
            Response(uplink, downlink, bandwidth, cn_db,
                     combine_cn_db(
                         IF NotNone(uplink.cni_db) THEN Val(uplink.cni_db) ELSE uplink.cn_db,
                         IF NotNone(downlink.cni_db) THEN Val(downlink.cni_db)
                         ELSE downlink.cn_db),
                     combine_cn_db(Val(l.ul_clean_cn), Val(l.dl_clean_cn)),
                     SelectCall("common", waveform, cn_db + TenLog10(bandwidth), bandwidth,
                                p.runtime.rolloff))
        Directions(uplink, downlink) ==
            Combined(uplink, downlink,
                     IF downlink.bandwidth_hz # 0 THEN downlink.bandwidth_hz
                     ELSE uplink.bandwidth_hz,
                     combine_cn_db(uplink.cn_db, downlink.cn_db))
    IN  Directions(Val(l.uplink), Val(l.downlink))

\* min_margin reporting no system margin at all.
min_margin_null(a, b) == None

\* min_margin taking the larger of the two.
min_margin_max(a, b) ==
    IF NotNone(a) /\ NotNone(b) THEN Some(Max(Val(a), Val(b)))
    ELSE IF NotNone(a) THEN a
    ELSE b

\* min(link_margins) if link_margins else None (lines 571-572).
min_margin(a, b) ==
    IF NotNone(a) /\ NotNone(b) THEN Some(Min(Val(a), Val(b)))
    ELSE IF NotNone(a) THEN a
    ELSE b

\* Lines 559-570: the clean margin of a direction that has a margin.
with_clean_margin(result, clean_cn) ==
    IF NotNone(result.link_margin_db)
    THEN [ result EXCEPT !.clean_link_margin_db =
             Some(Val(result.link_margin_db) + (clean_cn - result.cn_db)),
                         !.clean_cn_db = Some(clean_cn) ]
    ELSE result

\* calculate._apply_modcod, then the clean margin: the direction's result
\* after its own selection.
apply_modcod(result, sel, clean_cn) ==
    with_clean_margin(with_selection(result, sel, result.cn0_dbhz), clean_cn)

\* Lines 536-588: Regenerative.  One selection per direction, each on the
\* direction's own waveform and against the direction's own C/N0.
combine_regenerative(p, l) ==
    LET Response(up_call, down_call, up, down) ==
            [ calls |-> << up_call, down_call >>,
              response |->
                [ status_code |-> 200,
                  transponder_type |-> p.transponder_type,
                  runtime_echo |-> [ sat_longitude_deg |-> l.sat_longitude ],
                  results |-> [ uplink |-> up, downlink |-> down, combined |-> None ],
                  combined_link_margin_db |->
                      min_margin(up.link_margin_db, down.link_margin_db),
                  combined_cn_db |-> None,
                  combined_cn0_dbhz |-> None,
                  modcod_selected |->
                    [ uplink |-> IF NotNone(up.modcod_selected)
                                 THEN Some([ id |-> Val(up.modcod_selected) ]) ELSE None,
                      downlink |-> IF NotNone(down.modcod_selected)
                                   THEN Some([ id |-> Val(down.modcod_selected) ])
                                   ELSE None ] ] ]
        Selected(uplink, downlink, up_call, down_call) ==
            Response(up_call, down_call,
                     apply_modcod(uplink, up_call.returned, Val(l.ul_clean_cn)),
                     apply_modcod(downlink, down_call.returned, Val(l.dl_clean_cn)))
        Directions(uplink, downlink) ==
            Selected(uplink, downlink,
                     SelectCall("uplink", Val(l.uplink_waveform), uplink.cn0_dbhz,
                                uplink.bandwidth_hz, p.runtime.rolloff),
                     SelectCall("downlink", Val(l.downlink_waveform), downlink.cn0_dbhz,
                                downlink.bandwidth_hz, p.runtime.rolloff))
    IN  Directions(Val(l.uplink), Val(l.downlink))

\* Lines 423-709: ModCod selection, margins and the response body.
combine(p, l, waveform) ==
    IF p.transponder_type = "TRANSPARENT" THEN combine_transparent(p, l, waveform)
    ELSE combine_regenerative(p, l)

(***************************************************************************)
(* Waveform strategy exercised on its own: a table is handed to the        *)
(* constructor, then select_modcod / select_modcod_with_margin are called. *)
(***************************************************************************)
MaxEntries == 3

EntryIds == << "m1", "m2", "m3", "m4", "m5" >>

\* Entry shapes the tables are built from (the id is set by position).
EntryPrototypes ==
    { ModcodEntry("", "obj", "QPSK", <<1, 4>>, Some(650), None, Some(50), None),
      ModcodEntry("", "obj", "8PSK", <<3, 4>>, Some(780), Some(60), Some(225), None),
      ModcodEntry("", "obj", "QPSK", <<1, 4>>, None, Some(10), Some(50), Some(20)),
      ModcodEntry("", "obj", "8PSK", <<3, 4>>, None, Some(60), Some(225), None),
      ModcodEntry("", "obj", "QPSK", <<1, 2>>, None, None, Some(100), None),
      ModcodEntry("", "obj", "QPSK", <<1, 2>>, Some(700), None, Some(0), None),
      ModcodEntry("", "dict", "QPSK", <<1, 2>>, Some(700), None, None, None) }

WfTables ==
    UNION { { [i \in 1..n |-> [f[i] EXCEPT !.id = EntryIds[i]]] :
                f \in [1..n -> EntryPrototypes] } : n \in 0..MaxEntries }

Cn0Args == { 550, 610, 670, 730, 790 }

BandwidthArgs == { None, Some(1000000) }

RolloffArgs == { None, Some(35) }

WfInit ==
    /\ wf_arg \in { None } \cup { Some(t) : t \in WfTables }
    /\ wf_strategy = None
    /\ wf_calls = << >>
    /\ pc = "idle"
    /\ payload = None
    /\ svc = None
    /\ loc = None
    /\ response = None
    /\ select_calls = << >>
    /\ sw = None
    /\ parked = None
    /\ imp = None
    /\ agent = None

WfConstruct ==
    /\ wf_strategy = None
    /\ wf_strategy' = Some(DvbS2xStrategy(wf_arg))
    /\ UNCHANGED << wf_arg, wf_calls, calc_vars, rest_vars >>

\* A call on the constructed instance.  A second call repeats the bandwidth
\* and roll-off of the first with a C/N0 that is not lower.
WfSelect ==
    /\ wf_strategy # None
    /\ ~ Val(wf_strategy).error
    /\ Len(wf_calls) < 2
    /\ \E cn0 \in Cn0Args, bw \in BandwidthArgs, ro \in RolloffArgs :
          /\ wf_calls # << >> =>
                /\ bw = wf_calls[1].bandwidth_hz
                /\ ro = wf_calls[1].rolloff
                /\ cn0 >= wf_calls[1].cn0_dbhz
          /\ wf_calls' = Append(wf_calls,
                [ cn0_dbhz |-> cn0, bandwidth_hz |-> bw, rolloff |-> ro,
                  selected |-> select_modcod(Val(wf_strategy).table, cn0, bw, ro),
                  with_margin |-> select_modcod_with_margin(Val(wf_strategy).table, cn0, bw, ro) ])
    /\ UNCHANGED << wf_arg, wf_strategy, calc_vars, rest_vars >>

WfNext == WfConstruct \/ WfSelect

SpecWaveform == WfInit /\ [][WfNext]_vars


(***************************************************************************)
(* The constructor exercised on tables whose entries carry missing, zero,  *)
(* negative and positive info_bits_per_symbol, as ModcodEntry instances    *)
(* and as dictionaries.                                                    *)
(***************************************************************************)
MaxCtorEntries == 2

CtorPrototypes ==
    { ModcodEntry("", "obj", "QPSK", <<1, 2>>, Some(700), None, Some(100), None),
      ModcodEntry("", "obj", "QPSK", <<1, 2>>, Some(700), None, Some(0), None),
      ModcodEntry("", "obj", "QPSK", <<1, 2>>, Some(700), None, Some(-50), None),
      ModcodEntry("", "obj", "QPSK", <<1, 2>>, Some(700), None, None, None),
      ModcodEntry("", "dict", "QPSK", <<1, 2>>, Some(700), None, Some(100), None),
      ModcodEntry("", "dict", "QPSK", <<1, 2>>, Some(700), None, Some(0), None),
      ModcodEntry("", "dict", "QPSK", <<1, 2>>, Some(700), None, Some(-50), None),
      ModcodEntry("", "dict", "QPSK", <<1, 2>>, Some(700), None, None, None),
      ModcodEntry("", "dict", "CUSTOM", <<1, 2>>, Some(650), None, Some(0), None) }

CtorTables ==
    UNION { { [i \in 1..n |-> [f[i] EXCEPT !.id = EntryIds[i]]] :
                f \in [1..n -> CtorPrototypes] } : n \in 0..MaxCtorEntries }

CtorInit ==
    /\ wf_arg \in { None } \cup { Some(t) : t \in CtorTables }
    /\ wf_strategy = None
    /\ wf_calls = << >>
    /\ pc = "idle"
    /\ payload = None
    /\ svc = None
    /\ loc = None
    /\ response = None
    /\ select_calls = << >>
    /\ sw = None
    /\ parked = None
    /\ imp = None
    /\ agent = None

SpecConstruct == CtorInit /\ [][WfNext]_vars

(***************************************************************************)
(* effective_spectral_efficiency called on an entry of a constructed       *)
(* table, for the roll-off family (DVB_S2X) and the overhead family        *)
(* (5G_NR), with and without an explicit roll-off / overhead argument.     *)
(***************************************************************************)
MaxEffCalls == 2

EffInit ==
    /\ wf_arg \in { None } \cup
          { Some(<< ModcodEntry("m1", "obj", "QPSK", <<1, 2>>, Some(700), None, Some(info), ro) >>) :
                info \in { 100, 450 },
                ro \in { None, Some(-20), Some(0), Some(12), Some(120) } }
    /\ wf_strategy = None
    /\ wf_calls = << >>
    /\ pc = "idle"
    /\ payload = None
    /\ svc = None
    /\ loc = None
    /\ response = None
    /\ select_calls = << >>
    /\ sw = None
    /\ parked = None
    /\ imp = None
    /\ agent = None

\* strategy.effective_spectral_efficiency(entry, rolloff) on an entry of the
\* instance's table.
WfEfficiency ==
    /\ wf_strategy # None
    /\ ~ Val(wf_strategy).error
    /\ Len(wf_calls) < MaxEffCalls
    /\ \E i \in 1..Len(Val(wf_strategy).table),
          ro \in { None, Some(-50), Some(0), Some(14), Some(35), Some(100), Some(150) },
          name \in { "DVB_S2X", "5G_NR" } :
          wf_calls' = Append(wf_calls,
                [ name |-> name, entry |-> Val(wf_strategy).table[i], rolloff |-> ro,
                  efficiency |->
                      IF name = "5G_NR"
                      THEN nr_effective_spectral_efficiency(Val(wf_strategy).table[i], ro)
                      ELSE effective_spectral_efficiency(Val(wf_strategy).table[i], ro) ])
    /\ UNCHANGED << wf_arg, wf_strategy, calc_vars, rest_vars >>

EffNext == WfConstruct \/ WfEfficiency

SpecEfficiency == EffInit /\ [][EffNext]_vars
(***************************************************************************)
(* One request through CalculationService.calculate.  The handler is cut   *)
(* at its stages; a stage that raises ends the request with the error      *)
(* response FastAPI makes of the HTTPException.                             *)
(***************************************************************************)
\* The error response of a raised HTTPException.
ErrorResponse(exc) == Some([ status_code |-> exc.status_code, detail |-> exc.detail ])

\* The response to an exception that is not an HTTPException and that
\* nothing catches.
UnhandledResponse == Some([ status_code |-> 500, detail |-> "Internal Server Error" ])

\* A stage that changes the locals only: on to the next stage, or out with
\* the error response.
Stage(from, to, outcome) ==
    /\ pc = from
    /\ IF outcome.ok
       THEN /\ pc' = to
            /\ loc' = outcome.locals
            /\ response' = response
       ELSE /\ pc' = "done"
            /\ loc' = loc
            /\ response' = ErrorResponse(outcome)

\* waveform_after with line 103 left out: the strategy keeps the waveform it
\* was constructed with.
waveform_after_kept(outcome) == svc

\* The waveform of the service's strategy after lines 97-103.
waveform_after(outcome) ==
    IF outcome.ok /\ payload.transponder_type = "TRANSPARENT"
    THEN [ svc EXCEPT !.waveform = Val(outcome.locals.uplink_waveform) ]
    ELSE svc

\* The bandwidth stage: the runtime block is written in place either way.
BandwidthStage(outcome) ==
    /\ payload' = [ payload EXCEPT !.runtime = outcome.runtime ]
    /\ IF outcome.ok
       THEN /\ pc' = "build_directions"
            /\ loc' = [ loc EXCEPT !.shared_bandwidth = outcome.shared_bandwidth ]
            /\ response' = response
       ELSE /\ pc' = "done"
            /\ loc' = loc
            /\ response' = ErrorResponse(outcome)

\* The context stage: the context object is installed before it is filled.
ContextStage(outcome) ==
    /\ svc' = [ svc EXCEPT !.context = outcome.context ]
    /\ IF outcome.ok
       THEN pc' = "run_strategy" /\ response' = response
       ELSE pc' = "done" /\ response' = ErrorResponse(outcome)

\* The last stage: the calls made and the response.
CombineStage(outcome) ==
    /\ pc' = "done"
    /\ select_calls' = select_calls \o outcome.calls
    /\ response' = Some(outcome.response)

\* Lines 59-81.
FetchAssets ==
    /\ pc = "fetch_assets"
    /\ pc' = "fetch_modcod"
    /\ loc' = fetch_assets(payload, loc)
    /\ UNCHANGED << payload, svc, response, select_calls, wf_vars, rest_vars >>

\* Lines 83-114.  Under Transparent the fetched table replaces the waveform
\* of the service's communication strategy.
FetchModcod ==
    /\ pc = "fetch_modcod"
    /\ Stage("fetch_modcod", "check_assets", resolve_waveforms(payload, loc))
    /\ svc' = waveform_after(resolve_waveforms(payload, loc))
    /\ UNCHANGED << payload, select_calls, wf_vars, rest_vars >>

\* Lines 116-121.
CheckAssets ==
    /\ Stage("check_assets", "resolve_bandwidth", check_assets(payload, loc))
    /\ UNCHANGED << payload, svc, select_calls, wf_vars, rest_vars >>

\* Lines 123-141.
ResolveBandwidth ==
    /\ pc = "resolve_bandwidth"
    /\ BandwidthStage(resolve_bandwidth(payload))
    /\ UNCHANGED << svc, select_calls, wf_vars, rest_vars >>

\* Lines 143-145 and 202-240.
BuildDirections ==
    /\ Stage("build_directions", "resolve_context", build_directions(payload, loc))
    /\ UNCHANGED << payload, svc, select_calls, wf_vars, rest_vars >>

\* Lines 249-295.
ResolveContext ==
    /\ pc = "resolve_context"
    /\ ContextStage(resolve_context(payload, loc))
    /\ UNCHANGED << payload, loc, select_calls, wf_vars, rest_vars >>

\* Lines 297-307.
RunStrategy ==
    /\ pc = "run_strategy"
    /\ pc' = "apply_impairments"
    /\ loc' = [ loc EXCEPT !.uplink = Some(strategy_calculate(svc.context, loc, "uplink")),
                           !.downlink = Some(strategy_calculate(svc.context, loc, "downlink")) ]
    /\ UNCHANGED << payload, svc, response, select_calls, wf_vars, rest_vars >>

\* Lines 308-399.
ApplyImpairments ==
    /\ pc = "apply_impairments"
    /\ IF IsNone(impairments_error(loc))
       THEN /\ pc' = "combine"
            /\ loc' = apply_all_impairments(payload, loc)
            /\ response' = response
       ELSE /\ pc' = "done"
            /\ loc' = loc
            /\ response' = UnhandledResponse
    /\ UNCHANGED << payload, svc, select_calls, wf_vars, rest_vars >>

\* Lines 423-709: ModCod selection, margins and the response.
Combine ==
    /\ pc = "combine"
    /\ CombineStage(combine(payload, loc, svc.waveform))
    /\ UNCHANGED << payload, svc, loc, wf_vars, rest_vars >>

Next ==
    \/ FetchAssets
    \/ FetchModcod
    \/ CheckAssets
    \/ ResolveBandwidth
    \/ BuildDirections
    \/ ResolveContext
    \/ RunStrategy
    \/ ApplyImpairments
    \/ Combine


(***************************************************************************)
(* CalculationService.calculate run from its first line to its return (or  *)
(* raise) on a fresh service, as one call: what SweepService.execute       *)
(* awaits for each point.  The result holds the class of the exception     *)
(* raised ("" when the call returns), the response, the request dictionary *)
(* as the call leaves it, and the selection calls made.                    *)
(***************************************************************************)
calculate(p) ==
    LET Raised(exc, request) ==
            [ raised |-> "HTTPException", response |-> ErrorResponse(exc), payload |-> request,
              select_calls |-> << >> ]
        Escaped(exc, request) ==
            [ raised |-> Val(exc), response |-> UnhandledResponse, payload |-> request,
              select_calls |-> << >> ]
        Returned(outcome, request) ==
            [ raised |-> "", response |-> Some(outcome.response), payload |-> request,
              select_calls |-> outcome.calls ]
        Impaired(request, l, waveform) ==
            Returned(combine(request, l, waveform), request)
        Budgets(request, l, waveform) ==
            IF IsNone(impairments_error(l))
            THEN Impaired(request, apply_all_impairments(request, l), waveform)
            ELSE Escaped(impairments_error(l), request)
        WithContext(request, l, context, waveform) ==
            Budgets(request,
                    [ l EXCEPT !.uplink = Some(strategy_calculate(context, l, "uplink")),
                               !.downlink = Some(strategy_calculate(context, l, "downlink")) ],
                    waveform)
        Context(request, l, outcome, waveform) ==
            IF outcome.ok THEN WithContext(request, l, outcome.context, waveform)
            ELSE Raised(outcome, request)
        Directions(request, outcome, waveform) ==
            IF outcome.ok
            THEN Context(request, outcome.locals, resolve_context(request, outcome.locals), waveform)
            ELSE Raised(outcome, request)
        Rewritten(request, l, waveform) ==
            Directions(request, build_directions(request, l), waveform)
        Bandwidth(l, outcome, waveform) ==
            IF outcome.ok
            THEN Rewritten([ p EXCEPT !.runtime = outcome.runtime ],
                           [ l EXCEPT !.shared_bandwidth = outcome.shared_bandwidth ], waveform)
            ELSE Raised(outcome, [ p EXCEPT !.runtime = outcome.runtime ])
        Checked(outcome, waveform) ==
            IF outcome.ok THEN Bandwidth(outcome.locals, resolve_bandwidth(p), waveform)
            ELSE Raised(outcome, p)
        Waveforms(outcome) ==
            IF outcome.ok
            THEN Checked(check_assets(p, outcome.locals),
                         IF p.transponder_type = "TRANSPARENT"
                         THEN Val(outcome.locals.uplink_waveform)
                         ELSE DvbS2xStrategy(None))
            ELSE Raised(outcome, p)
    IN  Waveforms(resolve_waveforms(p, fetch_assets(p, NoLocals)))
(***************************************************************************)
(* Requests.                                                               *)
(***************************************************************************)
NoInterference ==
    [ adjacent_sat_ci_db |-> None, cross_polar_ci_db |-> None,
      other_carrier_ci_db |-> None, applied |-> FALSE ]

\* A runtime direction block: a station at 35 N under a satellite at 10 E.
Direction(frequency_hz, ground_lon_deg) ==
    [ frequency_hz |-> Some(frequency_hz), bandwidth_hz |-> None,
      elevation_deg |-> None, rain_rate_mm_per_hr |-> 0,
      ground_lat_deg |-> Some(35), ground_lon_deg |-> Some(ground_lon_deg),
      interference |-> NoInterference ]

\* A complete Transparent request on stored assets; the families below vary
\* it field by field.
BasePayload ==
    [ transponder_type |-> "TRANSPARENT",
      modcod_table_id |-> Some("tbl-cn0"),
      uplink_modcod_table_id |-> None,
      downlink_modcod_table_id |-> None,
      satellite_id |-> Some("sat-full"),
      earth_station_tx_id |-> Some("es-stored"),
      earth_station_rx_id |-> Some("es-stored"),
      runtime |-> [ sat_longitude_deg |-> None,
                    bandwidth_hz |-> Some(36000000),
                    rolloff |-> None,
                    uplink |-> Direction(14000, 10),
                    downlink |-> Direction(12000, 50),
                    intermodulation |-> None ],
      overrides |-> [ satellite |-> [ eirp_dbw |-> None, gt_db_per_k |-> None ] ] ]

\* The Regenerative counterpart: a table and a bandwidth per direction.
RegenerativePayload ==
    [ BasePayload EXCEPT !.transponder_type = "REGENERATIVE",
                         !.modcod_table_id = None,
                         !.uplink_modcod_table_id = Some("tbl-cn0"),
                         !.downlink_modcod_table_id = Some("tbl-cn0"),
                         !.runtime.bandwidth_hz = None,
                         !.runtime.uplink.bandwidth_hz = Some(36000000),
                         !.runtime.downlink.bandwidth_hz = Some(36000000) ]

TableIds == { "tbl-cn0", "tbl-ebno", "tbl-empty", "tbl-bad", "tbl-down", "tbl-gone" }

RainRates == { 0, 20, 60 }

Bandwidths == { None, Some(36000000), Some(72000000) }

\* Link conditions: rain on either path, roll-off, interference, and the
\* table(s) the selection is made from.
LinkPayloads ==
    { [ BasePayload EXCEPT !.modcod_table_id = Some(t),
                           !.runtime.rolloff = ro,
                           !.runtime.uplink.rain_rate_mm_per_hr = ur,
                           !.runtime.downlink.rain_rate_mm_per_hr = dr,
                           !.runtime.downlink.interference.adjacent_sat_ci_db = ci ] :
        t \in { "tbl-cn0", "tbl-ebno", "tbl-empty" }, ro \in { None, Some(35) },
        ur \in RainRates, dr \in RainRates, ci \in { None, Some(180) } }
    \cup
    { [ RegenerativePayload EXCEPT !.uplink_modcod_table_id = ut,
                                   !.downlink_modcod_table_id = dt,
                                   !.runtime.uplink.rain_rate_mm_per_hr = ur,
                                   !.runtime.downlink.rain_rate_mm_per_hr = dr,
                                   !.runtime.downlink.bandwidth_hz = bw ] :
        ut \in { None, Some("tbl-cn0"), Some("tbl-ebno"), Some("tbl-empty") },
        dt \in { None, Some("tbl-cn0"), Some("tbl-ebno") },
        ur \in RainRates, dr \in RainRates,
        bw \in { Some(36000000), Some(72000000) } }

\* Table lookups that fail one way or another.
TablePayloads ==
    { [ BasePayload EXCEPT !.modcod_table_id = t ] :
        t \in { None } \cup { Some(id) : id \in TableIds } }
    \cup
    { [ RegenerativePayload EXCEPT !.modcod_table_id = t,
                                   !.uplink_modcod_table_id = ut,
                                   !.downlink_modcod_table_id = dt ] :
        t \in { None, Some("tbl-down") },
        ut \in { None } \cup { Some(id) : id \in TableIds },
        dt \in { None, Some("tbl-cn0"), Some("tbl-gone") } }

\* Every combination of shared and per-direction bandwidth, for both
\* transponder types.
BandwidthPayloads ==
    { [ BasePayload EXCEPT !.transponder_type = tt,
                           !.uplink_modcod_table_id =
                                IF tt = "REGENERATIVE" THEN Some("tbl-cn0") ELSE None,
                           !.downlink_modcod_table_id =
                                IF tt = "REGENERATIVE" THEN Some("tbl-cn0") ELSE None,
                           !.runtime.bandwidth_hz = shared,
                           !.runtime.uplink.bandwidth_hz = up,
                           !.runtime.downlink.bandwidth_hz = down ] :
        tt \in { "TRANSPARENT", "REGENERATIVE" },
        shared \in Bandwidths, up \in Bandwidths, down \in Bandwidths }

\* Station positions from under the satellite to beyond the horizon, with
\* and without a supplied elevation.
GeometryPayloads ==
    { [ BasePayload EXCEPT !.satellite_id = sat,
                           !.runtime.sat_longitude_deg = lon,
                           !.runtime.uplink.ground_lat_deg = ulat,
                           !.runtime.uplink.elevation_deg = uel,
                           !.runtime.downlink.ground_lon_deg = dlon,
                           !.runtime.downlink.elevation_deg = del ] :
        sat \in { Some("sat-full"), Some("sat-nolon") },
        lon \in { None, Some(30) },
        ulat \in { None, Some(0), Some(35), Some(82) },
        uel \in { None, Some(-5), Some(15) },
        dlon \in { Some(50), Some(95), Some(-120) },
        del \in { None, Some(-1), Some(40) } }

\* Every way of (not) providing the four context values.
AssetIds == { None, Some("es-stored"), Some("es-parts"), Some("es-power"),
              Some("es-none"), Some("es-gone") }

ContextPayloads ==
    { [ BasePayload EXCEPT !.satellite_id = sat,
                           !.earth_station_tx_id = tx,
                           !.earth_station_rx_id = rx,
                           !.runtime.sat_longitude_deg = Some(10),
                           !.overrides.satellite.eirp_dbw = oe,
                           !.overrides.satellite.gt_db_per_k = og ] :
        sat \in { None, Some("sat-full"), Some("sat-bare"), Some("sat-gone") },
        tx \in AssetIds, rx \in AssetIds,
        oe \in { None, Some(520) }, og \in { None, Some(70) } }

\* Satellite longitudes of the request (degrees east; the schema admits
\* -180 to 180), for a satellite stored with and without a longitude.
LongitudePayloads ==
    { [ BasePayload EXCEPT !.satellite_id = sat,
                           !.runtime.sat_longitude_deg = lon,
                           !.runtime.uplink.ground_lon_deg = Some(ulon),
                           !.runtime.downlink.ground_lon_deg = Some(dlon) ] :
        sat \in { Some("sat-full"), Some("sat-nolon") },
        lon \in { None, Some(0), Some(-20), Some(180) },
        ulon \in { 10, -5 }, dlon \in { 50, 5 } }

Payloads ==
    LinkPayloads \cup TablePayloads \cup BandwidthPayloads
        \cup GeometryPayloads \cup ContextPayloads \cup LongitudePayloads

\* A fresh CalculationService (lines 24-35) about to handle one request.
Init ==
    /\ payload \in Payloads
    /\ pc = "fetch_assets"
    /\ svc = [ waveform |-> DvbS2xStrategy(None), context |-> CommunicationContext ]
    /\ loc = NoLocals
    /\ response = None
    /\ select_calls = << >>
    /\ wf_arg = None
    /\ wf_strategy = None
    /\ wf_calls = << >>
    /\ sw = None
    /\ parked = None
    /\ imp = None
    /\ agent = None

Spec == Init /\ [][Next]_vars


(***************************************************************************)
(* Python floats of the sweep: services/sweep_service.py.                  *)
(* A float is held in thousandths of the unit of the swept field, and      *)
(* every arithmetic operation rounds its exact result to FloatDigits       *)
(* significant decimal digits (ties to even), never finer than one         *)
(* thousandth: binary64 does the same with 53 significant bits.            *)
(***************************************************************************)
FloatDigits == 3

\* The float nearest to num / den thousandths (den > 0).
FloatRound(num, den) ==
    LET HalfEven(n, d) ==
            IF 2 * (n % d) < d THEN n \div d
            ELSE IF 2 * (n % d) > d THEN (n \div d) + 1
            ELSE IF (n \div d) % 2 = 0 THEN n \div d
            ELSE (n \div d) + 1
        Scaled(scale) == scale * HalfEven(num, den * scale)
        Digits(magnitude) == IF magnitude = 0 THEN 1 ELSE Decade(magnitude) + 1
    IN  Scaled(IF Digits(Abs(num) \div den) <= FloatDigits THEN 1
               ELSE Pow10Int(Digits(Abs(num) \div den) - FloatDigits))

\* x + y, x - y, x * y and x / y on floats.
FloatOp(op, x, y) ==
    CASE op = "+" -> FloatRound(x + y, 1)
      [] op = "-" -> FloatRound(x - y, 1)
      [] op = "*" -> IF x % 1000 = 0 THEN FloatRound((x \div 1000) * y, 1)
                     ELSE IF y % 1000 = 0 THEN FloatRound(x * (y \div 1000), 1)
                     ELSE FloatRound(x * y, 1000)
      [] op = "/" -> IF y % 1000 = 0
                     THEN (IF y > 0 THEN FloatRound(x, y \div 1000)
                           ELSE FloatRound(-x, (-y) \div 1000))
                     ELSE (IF y > 0 THEN FloatRound(x * 1000, y)
                           ELSE FloatRound((-x) * 1000, -y))

\* float(n) of an integer n, and the integer a float that is whole stands for.
FloatOf(n) == FloatRound(n * 1000, 1)

WholeOf(x) == x \div 1000

(***************************************************************************)
(* api/schemas/sweep.py                                                    *)
(***************************************************************************)
\* SWEEPABLE_PARAMETERS[path]: the keys of the dotted path and the declared
\* bounds, in the units the request model holds the field in (rain rate,
\* degrees, MHz, Hz, tenths of a dB); None for a path that is not listed.
SWEEPABLE_PARAMETERS(path) ==
    LET Entry(keys, min_bound, max_bound) ==
            Some([ keys |-> keys, min_bound |-> min_bound, max_bound |-> max_bound ])
    IN  CASE path = "runtime.uplink.rain_rate_mm_per_hr" ->
                Entry(<< "runtime", "uplink", "rain_rate_mm_per_hr" >>, Some(0), None)
          [] path = "runtime.downlink.rain_rate_mm_per_hr" ->
                Entry(<< "runtime", "downlink", "rain_rate_mm_per_hr" >>, Some(0), None)
          [] path = "runtime.uplink.frequency_hz" ->
                Entry(<< "runtime", "uplink", "frequency_hz" >>, Some(1), None)
          [] path = "runtime.downlink.frequency_hz" ->
                Entry(<< "runtime", "downlink", "frequency_hz" >>, Some(1), None)
          [] path = "runtime.bandwidth_hz" ->
                Entry(<< "runtime", "bandwidth_hz" >>, Some(1000), None)
          [] path = "runtime.uplink.bandwidth_hz" ->
                Entry(<< "runtime", "uplink", "bandwidth_hz" >>, Some(1000), None)
          [] path = "runtime.downlink.bandwidth_hz" ->
                Entry(<< "runtime", "downlink", "bandwidth_hz" >>, Some(1000), None)
          [] path = "runtime.uplink.elevation_deg" ->
                Entry(<< "runtime", "uplink", "elevation_deg" >>, Some(0), Some(90))
          [] path = "runtime.downlink.elevation_deg" ->
                Entry(<< "runtime", "downlink", "elevation_deg" >>, Some(0), Some(90))
          [] path = "runtime.uplink.ground_lat_deg" ->
                Entry(<< "runtime", "uplink", "ground_lat_deg" >>, Some(-90), Some(90))
          [] path = "runtime.downlink.ground_lat_deg" ->
                Entry(<< "runtime", "downlink", "ground_lat_deg" >>, Some(-90), Some(90))
          [] path = "runtime.sat_longitude_deg" ->
                Entry(<< "runtime", "sat_longitude_deg" >>, Some(-180), Some(180))
          [] path = "overrides.satellite.eirp_dbw" ->
                Entry(<< "overrides", "satellite", "eirp_dbw" >>, None, None)
          [] path = "overrides.satellite.gt_db_per_k" ->
                Entry(<< "overrides", "satellite", "gt_db_per_k" >>, None, None)
          [] OTHER -> None

SweepConfig(parameter_path, start, end, steps) ==
    [ parameter_path |-> parameter_path, start |-> start, end |-> end, steps |-> steps ]

\* Field(ge=2, le=200) and validate_sweep_config: TRUE when the
\* configuration is accepted, FALSE when a ValidationError is raised.
validate_sweep_config(config) ==
    LET Within(value, bounds) ==
            /\ ~ (NotNone(bounds.min_bound) /\ value < FloatOf(Val(bounds.min_bound)))
            /\ ~ (NotNone(bounds.max_bound) /\ value > FloatOf(Val(bounds.max_bound)))
    IN  /\ config.steps >= 2
        /\ config.steps <= 200
        /\ NotNone(SWEEPABLE_PARAMETERS(config.parameter_path))
        /\ config.start # config.end
        /\ Within(config.start, Val(SWEEPABLE_PARAMETERS(config.parameter_path)))
        /\ Within(config.end, Val(SWEEPABLE_PARAMETERS(config.parameter_path)))

(***************************************************************************)
(* services/sweep_service.py                                               *)
(***************************************************************************)
\* Lines 123-126: start + i * (end - start) / (steps - 1) for i in
\* range(steps), evaluated left to right in floats.
sweep_values(config) ==
    [ k \in 1..config.steps |->
        FloatOp("+", config.start,
                FloatOp("/", FloatOp("*", FloatOf(k - 1), FloatOp("-", config.end, config.start)),
                        FloatOf(config.steps - 1))) ]

\* set_nested_value on the keys of the path.  The request models of this
\* module hold every intermediate dictionary, so none is created.
RECURSIVE set_nested_value(_, _, _)
set_nested_value(obj, keys, value) ==
    IF Len(keys) = 1 THEN [ obj EXCEPT ![keys[1]] = value ]
    ELSE [ obj EXCEPT ![keys[1]] = set_nested_value(obj[keys[1]], Tail(keys), value) ]

\* Lines 132-133 with the deep copy skipped: the base request itself is
\* written.
point_payload_shared(base_payload, keys, value) ==
    [ payload |-> set_nested_value(base_payload, keys, value),
      base_payload |-> set_nested_value(base_payload, keys, value) ]

\* Lines 132-133: the request of one point, written into a deep copy of the
\* base request, and the base request as the two lines leave it.
point_payload(base_payload, keys, value) ==
    [ payload |-> set_nested_value(base_payload, keys, value),
      base_payload |-> base_payload ]

\* What the request model holds for a swept float: the rain rate is a plain
\* number there, every other swept field an optional one.
field_value(keys, value) ==
    IF keys[Len(keys)] = "rain_rate_mm_per_hr" THEN WholeOf(value) ELSE Some(WholeOf(value))

\* _extract_modcod_info: the id of the selection, when it has one.  The
\* Regenerative response holds a dictionary of two selections, which has no
\* "id" key.
extract_modcod_id(result) ==
    IF result.transponder_type = "REGENERATIVE" THEN None
    ELSE IF IsNone(result.modcod_selected) THEN None
    ELSE Some(Val(result.modcod_selected).id)

SweepPoint(sweep_value, combined_link_margin_db, combined_cn_db, modcod_id, viable, warnings) ==
    [ sweep_value |-> sweep_value, combined_link_margin_db |-> combined_link_margin_db,
      combined_cn_db |-> combined_cn_db, modcod_id |-> modcod_id, viable |-> viable,
      warnings |-> warnings ]

\* viable of _extract_sweep_point with the test on the threshold dropped.
viable_always(combined_margin, threshold_db) == TRUE

\* Lines 58-60 of _extract_sweep_point.
viable(combined_margin, threshold_db) ==
    IF NotNone(threshold_db) /\ NotNone(combined_margin)
    THEN Val(combined_margin) >= Val(threshold_db)
    ELSE TRUE

\* _extract_sweep_point.
extract_sweep_point(result, sweep_value, threshold_db) ==
    SweepPoint(sweep_value, result.combined_link_margin_db, result.combined_cn_db,
               extract_modcod_id(result),
               viable(result.combined_link_margin_db, threshold_db), << >>)

\* The exception classes of the two except clauses (lines 145 and 151).
caught(raised) == raised \in { "HTTPException", "ValueError", "RuntimeError" }

\* Lines 142-156: the point made of what service.calculate returned, or of
\* the exception it raised when that is one the loop catches.
sweep_point(outcome, value, threshold_db) ==
    IF outcome.raised = ""
    THEN extract_sweep_point(Val(outcome.response), value, threshold_db)
    ELSE SweepPoint(value, None, None, None, FALSE, << Val(outcome.response).detail >>)

\* crossover_from returning the sweep value of the first point of the pair
\* in place of the interpolated one.
RECURSIVE crossover_from_left(_, _, _)
crossover_from_left(points, threshold_db, i) ==
    LET Crossed(m1, m2, t) == FloatOp("*", FloatOp("-", m1, t), FloatOp("-", m2, t)) < 0
        Pair(m1, m2, t) ==
            IF IsNone(m1) \/ IsNone(m2) THEN crossover_from_left(points, threshold_db, i + 1)
            ELSE IF Crossed(FloatOf(Val(m1)), FloatOf(Val(m2)), FloatOf(t))
            THEN Some(points[i].sweep_value)
            ELSE crossover_from_left(points, threshold_db, i + 1)
    IN  IF i > Len(points) - 1 THEN None
        ELSE Pair(points[i].combined_link_margin_db, points[i + 1].combined_link_margin_db,
                  Val(threshold_db))


\* compute_crossover from pair i on; margins and threshold are tenths of a
\* dB, the result a float in the unit of the sweep values.
RECURSIVE crossover_from(_, _, _)
crossover_from(points, threshold_db, i) ==
    LET Interpolate(v1, v2, m1, m2, t) ==
            FloatOp("+", v1,
                    FloatOp("*", FloatOp("/", FloatOp("-", t, m1), FloatOp("-", m2, m1)),
                            FloatOp("-", v2, v1)))
        Crossed(m1, m2, t) == FloatOp("*", FloatOp("-", m1, t), FloatOp("-", m2, t)) < 0
        Pair(m1, m2, t) ==
            IF IsNone(m1) \/ IsNone(m2) THEN crossover_from(points, threshold_db, i + 1)
            ELSE IF Crossed(FloatOf(Val(m1)), FloatOf(Val(m2)), FloatOf(t))
            THEN Some(Interpolate(points[i].sweep_value, points[i + 1].sweep_value,
                                  FloatOf(Val(m1)), FloatOf(Val(m2)), FloatOf(t)))
            ELSE crossover_from(points, threshold_db, i + 1)
    IN  IF i > Len(points) - 1 THEN None
        ELSE Pair(points[i].combined_link_margin_db, points[i + 1].combined_link_margin_db,
                  Val(threshold_db))

compute_crossover(points, threshold_db) ==
    IF IsNone(threshold_db) THEN None ELSE crossover_from(points, threshold_db, 1)

(***************************************************************************)
(* One sweep request: the SweepConfig is validated when the request is     *)
(* parsed, SweepService.execute generates the values, evaluates them one   *)
(* by one on a fresh CalculationService, and builds the response.          *)
(***************************************************************************)
\* Lines 131-157, one iteration: the locals after it.  An exception that no
\* except clause names leaves execute.
sweep_iteration(s, value, prepared) ==
    LET Evaluated(outcome) ==
            IF outcome.raised = "" \/ caught(outcome.raised)
            THEN [ s EXCEPT !.points = Append(@, sweep_point(outcome, value, s.threshold_db)),
                            !.base_payload = prepared.base_payload,
                            !.calls = Append(@, [ payload |-> prepared.payload,
                                                  select_calls |-> outcome.select_calls ]) ]
            ELSE [ s EXCEPT !.stage = "raised",
                            !.base_payload = prepared.base_payload,
                            !.raised = outcome.raised ]
    IN  Evaluated(calculate(prepared.payload))

\* The SweepRequest is parsed: a configuration that fails validation is
\* answered with a 422 and execute is never called.
SweepValidate ==
    /\ sw # None
    /\ Val(sw).stage = "request"
    /\ sw' = Some([ Val(sw) EXCEPT !.stage = IF validate_sweep_config(Val(sw).sweep)
                                              THEN "execute" ELSE "rejected" ])
    /\ UNCHANGED << wf_vars, calc_vars, parked, imp, agent >>

\* Lines 122-130.
SweepStart ==
    /\ sw # None
    /\ Val(sw).stage = "execute"
    /\ sw' = Some([ Val(sw) EXCEPT !.stage = "loop", !.values = sweep_values(Val(sw).sweep) ])
    /\ UNCHANGED << wf_vars, calc_vars, parked, imp, agent >>

\* Lines 131-157.
SweepEvaluate ==
    /\ sw # None
    /\ Val(sw).stage = "loop"
    /\ Len(Val(sw).points) < Len(Val(sw).values)
    /\ \E value \in { Val(sw).values[Len(Val(sw).points) + 1] },
          keys \in { Val(SWEEPABLE_PARAMETERS(Val(sw).sweep.parameter_path)).keys } :
          \E prepared \in { point_payload(Val(sw).base_payload, keys, field_value(keys, value)) } :
             sw' = Some(sweep_iteration(Val(sw), value, prepared))
    /\ UNCHANGED << wf_vars, calc_vars, parked, imp, agent >>

\* Lines 159-173.
SweepFinish ==
    /\ sw # None
    /\ Val(sw).stage = "loop"
    /\ Len(Val(sw).points) = Len(Val(sw).values)
    /\ sw' = Some([ Val(sw) EXCEPT !.stage = "done",
                                   !.crossover = compute_crossover(Val(sw).points,
                                                                   Val(sw).threshold_db) ])
    /\ UNCHANGED << wf_vars, calc_vars, parked, imp, agent >>

SweepNext == SweepValidate \/ SweepStart \/ SweepEvaluate \/ SweepFinish

\* Base requests: the complete Transparent and Regenerative requests, a
\* table without entries, a receive station that is not stored.
SweepBases ==
    { BasePayload, RegenerativePayload,
      [ BasePayload EXCEPT !.modcod_table_id = Some("tbl-empty") ],
      [ BasePayload EXCEPT !.modcod_table_id = Some("tbl-ebno") ],
      [ BasePayload EXCEPT !.earth_station_rx_id = Some("es-gone") ] }

\* Configurations: start and end are floats (thousandths).
SweepConfigs ==
    { SweepConfig("runtime.uplink.rain_rate_mm_per_hr", 0, 100000, 5),
      SweepConfig("runtime.downlink.rain_rate_mm_per_hr", 0, 60000, 4),
      SweepConfig("runtime.downlink.rain_rate_mm_per_hr", 60000, 0, 3),
      SweepConfig("runtime.uplink.ground_lat_deg", -90000, 90000, 4),
      SweepConfig("runtime.sat_longitude_deg", 179000, -180000, 4),
      SweepConfig("runtime.uplink.elevation_deg", 0, 90000, 3),
      SweepConfig("overrides.satellite.eirp_dbw", 400000, 40000000, 2),
      SweepConfig("runtime.uplink.rain_rate_mm_per_hr", 0, 20000, 1),
      SweepConfig("runtime.uplink.rain_rate_mm_per_hr", 0, 20000, 201),
      SweepConfig("runtime.uplink.rain_rate_mm_per_hr", 20000, 20000, 3),
      SweepConfig("runtime.uplink.rain_rate_mm_per_hr", -10000, 20000, 3),
      SweepConfig("runtime.uplink.elevation_deg", 10000, 95000, 3),
      SweepConfig("runtime.rolloff", 0, 1000, 3) }

SweepInit ==
    /\ sw \in { Some([ stage |-> "request", base_payload |-> b, sweep |-> c,
                       threshold_db |-> t, values |-> << >>, points |-> << >>,
                       calls |-> << >>, crossover |-> None, raised |-> "" ]) :
                  b \in SweepBases, c \in SweepConfigs, t \in { None, Some(30) } }
    /\ parked = None
    /\ imp = None
    /\ agent = None
    /\ pc = "idle"
    /\ payload = None
    /\ svc = None
    /\ loc = None
    /\ response = None
    /\ select_calls = << >>
    /\ wf_arg = None
    /\ wf_strategy = None
    /\ wf_calls = << >>

SpecSweep == SweepInit /\ [][SweepNext]_vars

(***************************************************************************)
(* compute_crossover on its own: three points of a sweep with any margins  *)
(* and an optional threshold.                                              *)
(***************************************************************************)
\* Sweep values of the three points: the example 0, 50, 100, a pair one unit
\* apart at 100, and a pair from -7 to 999.
CrossoverValues ==
    { << 0, 50000, 100000 >>, << 100000, 101000, 102000 >>, << -7000, 999000, 0 >> }

\* Combined margins in tenths of a dB (None: the point has none); the
\* threshold of the inputs is 5.0 dB.
CrossoverMargins ==
    [ 1..3 -> { None, Some(100), Some(51), Some(50), Some(49), Some(30), Some(-40), Some(-900) } ]
        \cup { [ k \in 1..3 |-> IF k = 1 THEN Some(2050) ELSE m ] :
                 m \in { None, Some(50), Some(49), Some(-40) } }

CrossoverInit ==
    /\ \E values \in CrossoverValues, margins \in CrossoverMargins, threshold_db \in { None, Some(50) } :
          sw = Some([ stage |-> "points",
                      points |-> [ k \in 1..3 |->
                                     SweepPoint(values[k], margins[k], None, None, TRUE, << >>) ],
                      threshold_db |-> threshold_db,
                      crossover |-> None ])
    /\ parked = None
    /\ imp = None
    /\ agent = None
    /\ pc = "idle" /\ payload = None /\ svc = None /\ loc = None /\ response = None
    /\ select_calls = << >>
    /\ wf_arg = None /\ wf_strategy = None /\ wf_calls = << >>

ComputeCrossover ==
    /\ NotNone(sw)
    /\ Val(sw).stage = "points"
    /\ sw' = Some([ Val(sw) EXCEPT !.stage = "crossed",
                                   !.crossover = compute_crossover(Val(sw).points,
                                                                   Val(sw).threshold_db) ])
    /\ UNCHANGED << calc_vars, wf_vars, parked, imp, agent >>

CrossoverNext == ComputeCrossover

SpecCrossover == CrossoverInit /\ [][CrossoverNext]_vars

(***************************************************************************)
(* Calculations in flight at the same time: api/routes/calculations.py.    *)
(* The running coroutine is held in pc, payload, svc, loc, response and    *)
(* select_calls; the coroutine suspended beside it is parked.  Control     *)
(* passes from one to the other where calculate awaits a repository, and   *)
(* when the running one has returned.                                      *)
(***************************************************************************)
MaxRequests == 3

MaxSwitches == 4

\* CalculationService.__init__ (lines 24-35): a new strategy and context.
CalculationService ==
    [ waveform |-> DvbS2xStrategy(None), context |-> CommunicationContext ]

\* Requests that differ in table, stations, rain and satellite values.
ConcurrentPayloads ==
    { BasePayload,
      [ BasePayload EXCEPT !.modcod_table_id = Some("tbl-ebno"),
                           !.earth_station_tx_id = Some("es-parts"),
                           !.runtime.downlink.rain_rate_mm_per_hr = 60 ],
      [ BasePayload EXCEPT !.modcod_table_id = Some("tbl-gone") ],
      [ RegenerativePayload EXCEPT !.uplink_modcod_table_id = Some("tbl-ebno"),
                                   !.downlink_modcod_table_id = None,
                                   !.overrides.satellite.eirp_dbw = Some(520) ] }

\* The frame of a coroutine of calculate.
Frame(f_pc, f_payload, f_svc, f_loc, f_response, f_select_calls) ==
    [ pc |-> f_pc, payload |-> f_payload, svc |-> f_svc, loc |-> f_loc,
      response |-> f_response, select_calls |-> f_select_calls ]

\* The route handler called with request p: a service of its own, and
\* service.calculate(p) about to run.
Handler(p) == Frame("fetch_assets", p, CalculationService, NoLocals, None, << >>)

Running == Frame(pc, payload, svc, loc, response, select_calls)

\* The awaits of calculate that give up control are the repository lookups
\* (lines 77-81 and _fetch_modcod); nothing before them in their stage touches
\* the service.
Suspended(f) == f.pc \in { "fetch_assets", "fetch_modcod" }

ConcurrentInit ==
    /\ \E p \in ConcurrentPayloads, q \in ConcurrentPayloads :
          /\ payload = p
          /\ parked = Some([ frame |-> Handler(q), started |-> 2, switches |-> 0 ])
    /\ pc = "fetch_assets"
    /\ svc = CalculationService
    /\ loc = NoLocals
    /\ response = None
    /\ select_calls = << >>
    /\ sw = None
    /\ imp = None
    /\ agent = None
    /\ wf_arg = None /\ wf_strategy = None /\ wf_calls = << >>

\* The event loop resumes the other coroutine.
Switch ==
    /\ NotNone(parked)
    /\ Suspended(Running) \/ pc = "done"
    /\ Val(parked).frame.pc # "done"
    /\ Val(parked).switches < MaxSwitches
    /\ pc' = Val(parked).frame.pc
    /\ payload' = Val(parked).frame.payload
    /\ svc' = Val(parked).frame.svc
    /\ loc' = Val(parked).frame.loc
    /\ response' = Val(parked).frame.response
    /\ select_calls' = Val(parked).frame.select_calls
    /\ parked' = Some([ Val(parked) EXCEPT !.frame = Running, !.switches = @ + 1 ])
    /\ UNCHANGED << wf_vars, sw, imp, agent >>

\* The next request arrives after the running one was answered.
Dispatch ==
    /\ NotNone(parked)
    /\ pc = "done"
    /\ Val(parked).started < MaxRequests
    /\ \E p \in ConcurrentPayloads :
          /\ pc' = Handler(p).pc
          /\ payload' = Handler(p).payload
          /\ svc' = Handler(p).svc
          /\ loc' = Handler(p).loc
          /\ response' = Handler(p).response
          /\ select_calls' = Handler(p).select_calls
    /\ parked' = Some([ Val(parked) EXCEPT !.started = @ + 1 ])
    /\ UNCHANGED << wf_vars, sw, imp, agent >>

ConcurrentNext == Next \/ Switch \/ Dispatch

SpecConcurrent == ConcurrentInit /\ [][ConcurrentNext]_vars

(***************************************************************************)
(* core/impairments.py on its own: the estimates of one direction and      *)
(* apply_impairments on a direction result, and combine_cn_db on two C/N.  *)
(***************************************************************************)
\* A CalculationResult as the strategy returns it for a C/N and a bandwidth.
CleanResult(cn_db, bandwidth_hz, link_margin_db, warnings) ==
    [ direction |-> "downlink", cn_db |-> cn_db,
      cn0_dbhz |-> cn_db + (IF bandwidth_hz = 0 THEN 0 ELSE TenLog10(bandwidth_hz)),
      link_margin_db |-> link_margin_db, bandwidth_hz |-> bandwidth_hz,
      cni_db |-> None, cni0_dbhz |-> None, c_im_db |-> None,
      interference_applied |-> FALSE, intermod_applied |-> FALSE,
      warnings |-> warnings ]

\* Clean results at 20, 10 and 5.3 dB.
ImpairmentResults ==
    { CleanResult(cn_db, bandwidth_hz, link_margin_db, warnings) :
        cn_db \in { 200, 100, 53 },
        bandwidth_hz \in { 0, 1000000, 36000000 },
        link_margin_db \in { None, Some(35) },
        warnings \in { None, Some(<< ImpairmentWarning("Rain fade", 0, 12) >>) } }

InterferenceBlocks ==
    { [ adjacent_sat_ci_db |-> a, cross_polar_ci_db |-> x, other_carrier_ci_db |-> None,
        applied |-> f ] :
        a \in { None, Some(100), Some(250) }, x \in { None, Some(180) }, f \in BOOLEAN }

\* IntermodulationModel blocks, and None for a request without one.
IntermodulationBlocks ==
    { None } \cup
    { Some([ output_backoff_db |-> o, input_backoff_db |-> i, composite_carriers |-> c ]) :
        o \in { None, Some(30), Some(0) }, i \in { None, Some(50) },
        c \in { None, Some(0), Some(2), Some(10) } }

\* C/N values for combine_cn_db, tenths of a dB.
CombineValues == { -50, 0, 53, 100, 127, 200, 250 }

ImpairmentsInit ==
    /\ \/ \E result \in ImpairmentResults, interference \in InterferenceBlocks,
             intermodulation \in IntermodulationBlocks, downlink \in BOOLEAN :
             imp = Some([ stage |-> "estimate", result |-> result,
                          direction_data |-> [ interference |-> interference ],
                          intermodulation |-> intermodulation, downlink |-> downlink ])
       \/ \E ul_cn \in CombineValues, dl_cn \in CombineValues :
             imp = Some([ stage |-> "combine", ul_cn |-> ul_cn, dl_cn |-> dl_cn ])
    /\ agent = None
    /\ sw = None
    /\ parked = None
    /\ pc = "idle" /\ payload = None /\ svc = None /\ loc = None /\ response = None
    /\ select_calls = << >>
    /\ wf_arg = None /\ wf_strategy = None /\ wf_calls = << >>

\* apply_impairments returning the object it was given, updated in place.
apply_impairments_call_in_place(result, bandwidth_hz, interference, apply_intermod, c_im_db_value) ==
    [ returned |-> apply_impairments(result, bandwidth_hz, interference, apply_intermod,
                                     c_im_db_value),
      result |-> apply_impairments(result, bandwidth_hz, interference, apply_intermod,
                                   c_im_db_value) ]

\* One call of apply_impairments: what it returns, and the object it was
\* given as the call leaves it (the warnings are copied with list(), the
\* result with dataclasses.replace).
apply_impairments_call(result, bandwidth_hz, interference, apply_intermod, c_im_db_value) ==
    [ returned |-> apply_impairments(result, bandwidth_hz, interference, apply_intermod,
                                     c_im_db_value),
      result |-> result ]

\* compute_interference and estimate_intermodulation of the direction.
EstimateImpairments ==
    /\ NotNone(imp)
    /\ Val(imp).stage = "estimate"
    /\ imp' = Some([ stage |-> "apply", result |-> Val(imp).result,
                     direction_data |-> Val(imp).direction_data,
                     intermodulation |-> Val(imp).intermodulation,
                     downlink |-> Val(imp).downlink,
                     interference |-> interference_inputs(Val(imp).direction_data),
                     intermod |-> estimate_c_im(Val(imp).intermodulation) ])
    /\ UNCHANGED << wf_vars, calc_vars, sw, parked, agent >>

\* apply_impairments as the service calls it: the intermodulation estimate
\* is requested for the downlink only.
ApplyImpairmentsCall ==
    /\ NotNone(imp)
    /\ Val(imp).stage = "apply"
    /\ \E call \in { apply_impairments_call(
                         Val(imp).result, Val(imp).result.bandwidth_hz, Val(imp).interference,
                         Val(imp).downlink /\ Val(imp).intermod.applied,
                         Val(imp).intermod.c_im_db) } :
          imp' = Some([ stage |-> "applied", base |-> Val(imp).result,
                        direction_data |-> Val(imp).direction_data,
                        intermodulation |-> Val(imp).intermodulation,
                        downlink |-> Val(imp).downlink,
                        interference |-> Val(imp).interference,
                        intermod |-> Val(imp).intermod,
                        result |-> call.result, returned |-> call.returned ])
    /\ UNCHANGED << wf_vars, calc_vars, sw, parked, agent >>

\* combine_cn_db, both ways round.
CombineCnCall ==
    /\ NotNone(imp)
    /\ Val(imp).stage = "combine"
    /\ imp' = Some([ stage |-> "combined", ul_cn |-> Val(imp).ul_cn, dl_cn |-> Val(imp).dl_cn,
                     returned |-> combine_cn_db(Val(imp).ul_cn, Val(imp).dl_cn),
                     swapped |-> combine_cn_db(Val(imp).dl_cn, Val(imp).ul_cn) ])
    /\ UNCHANGED << wf_vars, calc_vars, sw, parked, agent >>

ImpairmentsNext == EstimateImpairments \/ ApplyImpairmentsCall \/ CombineCnCall

SpecImpairments == ImpairmentsInit /\ [][ImpairmentsNext]_vars
(***************************************************************************)
(* The agent workflow: agents/src/ntn_agents/graph.py and its nodes.  One  *)
(* run of link_budget_graph from the initial state of run_link_budget; a   *)
(* step is one node together with the edge function that follows it.       *)
(* A key of the state dictionary is None when absent, Some(None) when      *)
(* present with the value None, Some(Some(v)) otherwise.                    *)
(***************************************************************************)
\* The supersteps a run may take: ainvoke is called without a config, and
\* LangGraph's default recursion_limit is 25.
RecursionLimit == 25

\* str.lower() on the responses of the model.
lower(s) ==
    CASE s = "QUIT" -> "quit"
      [] s = " Stop " -> " stop "
      [] s = "Yes" -> "yes"
      [] OTHER -> s

\* str.strip() on the responses of the model.
strip(s) ==
    CASE s = " stop " -> "stop"
      [] OTHER -> s

\* What the user can have answered.  With no answer the key is absent from
\* the state a node is handed, or present with the value None, as the
\* installed LangGraph passes an unset key.
UserResponses ==
    { None, Some(None) } \cup
    { Some(Some(r)) : r \in { "yes", "Yes", "no", "cancel", " Stop ", "quit", "QUIT", "maybe",
                              "ok, eirp 55", "ok then" } }

\* state.get(key, default).
state_get(value, default) == IF IsNone(value) THEN default ELSE Val(value)

\* run_link_budget: the initial state, as far as the edges and the nodes
\* that decide them read it.
initial_state(mode) ==
    [ mode |-> mode, assets_ready |-> FALSE, proposed_assets |-> << >>,
      awaiting_confirmation |-> FALSE, confirmation_type |-> None,
      user_response |-> None, should_optimize |-> FALSE ]

\* graph.should_confirm_assets.
should_confirm_assets(state) ==
    IF state.awaiting_confirmation THEN "confirm"
    ELSE IF ~ state.assets_ready THEN "confirm"
    ELSE "calculate"

\* graph.should_optimize.
should_optimize(state) ==
    IF state.mode = "optimize" THEN "optimize"
    ELSE IF state.should_optimize THEN "optimize"
    ELSE "end"

\* graph.after_human; the attribute lookup .lower() on None raises.
after_human(state) ==
    IF IsNone(state_get(state.user_response, Some("")))
    THEN "AttributeError"
    ELSE IF lower(Val(state_get(state.user_response, Some("")))) \in { "cancel", "stop", "quit" }
    THEN "end"
    ELSE IF state.confirmation_type = Some("asset_creation") THEN "resolve_assets"
    ELSE IF state.confirmation_type = Some("proceed") THEN "calculate"
    ELSE "resolve_assets"

\* asset_node: the assets found for the extracted parameters ("resolved"),
\* some of them proposed for creation ("proposed"), or some of them missing
\* with nothing to propose ("missing").
asset_node(state, found) ==
    [ state EXCEPT
        !.assets_ready = (found = "resolved"),
        !.proposed_assets = IF found = "proposed" THEN << "satellite" >> ELSE << >>,
        !.awaiting_confirmation = (found = "proposed"),
        !.confirmation_type = IF found = "proposed" THEN Some("asset_creation") ELSE None ]

\* human_node; created tells whether every proposed asset could be created.
human_node(state, created) ==
    LET Answered(response_lower) ==
            IF response_lower \in { "yes", "y", "ok", "proceed", "create" }
            THEN IF state.confirmation_type = Some("asset_creation")
                    /\ state.proposed_assets # << >>
                 THEN [ state EXCEPT !.assets_ready = created,
                                     !.proposed_assets = << >>,
                                     !.awaiting_confirmation = FALSE,
                                     !.confirmation_type = None,
                                     !.user_response = Some(None) ]
                 ELSE IF state.confirmation_type = Some("proceed")
                 THEN [ state EXCEPT !.awaiting_confirmation = FALSE,
                                     !.confirmation_type = None,
                                     !.user_response = Some(None) ]
                 ELSE state
            ELSE IF response_lower \in { "no", "n", "cancel", "stop" }
            THEN [ state EXCEPT !.awaiting_confirmation = FALSE,
                                !.confirmation_type = None,
                                !.user_response = Some(Some("cancel")) ]
            \* anything else: the proposals are modified or the question is
            \* put again, and the answer is cleared either way
            ELSE [ state EXCEPT !.user_response = Some(None) ]
    IN  IF IsNone(state_get(state.user_response, Some("")))
           \/ state_get(state.user_response, Some("")) = Some("")
        THEN state
        ELSE Answered(strip(lower(Val(state_get(state.user_response, Some(""))))))

\* What the backend holds for the parameters parser_node extracts.
AssetOutcomes == { "resolved", "proposed", "missing" }

Modes == { "design", "optimize", "consult" }

\* The run after one more superstep.
Superstep(run, node, next, state) ==
    Some([ run EXCEPT !.at = next, !.state = state, !.steps = @ + 1,
                      !.executed = @ \cup { node } ])

\* The node the run is about to execute.
At(node) ==
    /\ NotNone(agent)
    /\ Val(agent).at = node
    /\ Val(agent).steps < RecursionLimit

\* A run started by run_link_budget; the answer of the user, if there is
\* one, is in the state from the start, the graph having no other way to
\* receive it.
AgentInit ==
    /\ \E mode \in Modes, user_response \in UserResponses, found \in AssetOutcomes :
          agent = Some([ at |-> "parse",
                         state |-> [ initial_state(mode) EXCEPT !.user_response = user_response ],
                         found |-> found, answer |-> user_response,
                         steps |-> 0, executed |-> { } ])
    /\ imp = None
    /\ sw = None
    /\ parked = None
    /\ pc = "idle" /\ payload = None /\ svc = None /\ loc = None /\ response = None
    /\ select_calls = << >>
    /\ wf_arg = None /\ wf_strategy = None /\ wf_calls = << >>

\* parser_node, then the edge to resolve_assets.
ParseNode ==
    /\ At("parse")
    /\ agent' = Superstep(Val(agent), "parse", "resolve_assets", Val(agent).state)
    /\ UNCHANGED << wf_vars, calc_vars, sw, parked, imp >>

\* asset_node, then should_confirm_assets.
ResolveAssetsNode ==
    /\ At("resolve_assets")
    /\ \E state \in { asset_node(Val(agent).state, Val(agent).found) } :
          agent' = Superstep(Val(agent), "resolve_assets",
                             IF should_confirm_assets(state) = "confirm"
                             THEN "human_confirm" ELSE "calculate",
                             state)
    /\ UNCHANGED << wf_vars, calc_vars, sw, parked, imp >>

\* human_node, then after_human.
HumanConfirmNode ==
    /\ At("human_confirm")
    /\ \E created \in BOOLEAN :
          \E state \in { human_node(Val(agent).state, created) } :
             agent' = Superstep(Val(agent), "human_confirm",
                                IF after_human(state) = "end" THEN "END" ELSE after_human(state),
                                state)
    /\ UNCHANGED << wf_vars, calc_vars, sw, parked, imp >>

\* calculator_node, then the edge to explain.
CalculateNode ==
    /\ At("calculate")
    /\ agent' = Superstep(Val(agent), "calculate", "explain", Val(agent).state)
    /\ UNCHANGED << wf_vars, calc_vars, sw, parked, imp >>

\* expert_node, which may ask for an optimization, then should_optimize.
ExplainNode ==
    /\ At("explain")
    /\ \E optimize \in BOOLEAN :
          \E state \in { [ Val(agent).state EXCEPT !.should_optimize = optimize ] } :
             agent' = Superstep(Val(agent), "explain",
                                IF should_optimize(state) = "optimize" THEN "optimize" ELSE "END",
                                state)
    /\ UNCHANGED << wf_vars, calc_vars, sw, parked, imp >>

\* optimizer_node, then the edge to END.
OptimizeNode ==
    /\ At("optimize")
    /\ agent' = Superstep(Val(agent), "optimize", "END", Val(agent).state)
    /\ UNCHANGED << wf_vars, calc_vars, sw, parked, imp >>

\* The run has taken RecursionLimit supersteps and is not at END: ainvoke
\* raises GraphRecursionError.
RecursionLimitReached ==
    /\ NotNone(agent)
    /\ Val(agent).steps = RecursionLimit
    /\ Val(agent).at \notin { "END", "AttributeError", "GraphRecursionError" }
    /\ agent' = Some([ Val(agent) EXCEPT !.at = "GraphRecursionError" ])
    /\ UNCHANGED << wf_vars, calc_vars, sw, parked, imp >>

AgentNext ==
    \/ ParseNode
    \/ ResolveAssetsNode
    \/ HumanConfirmNode
    \/ CalculateNode
    \/ ExplainNode
    \/ OptimizeNode
    \/ RecursionLimitReached

SpecAgent == AgentInit /\ [][AgentNext]_vars

\* The graph runs every node it has scheduled: no step waits for anything
\* outside the run.
SpecAgentFair == SpecAgent /\ WF_vars(AgentNext)

(***************************************************************************)
(* Properties of the waveform strategy                                     *)
(***************************************************************************)
\* The table of the constructed instance.
WfTable == Val(wf_strategy).table

\* Whether entry e clears its threshold at this C/N0: with a bandwidth the
\* available Eb/N0 against the required Eb/N0 (from the C/N0 threshold when
\* the entry has one, else its Eb/N0 threshold); without one, C/N0 against
\* the C/N0 threshold.  An entry with no usable threshold never clears.
ThresholdMet(e, cn0, bw, ro) ==
    IF NotNone(bw)
    THEN LET l == TenLog10(Val(bitrate_bps(e, bw, ro)))
         IN  IF NotNone(e.required_cn0_dbhz) THEN cn0 - l >= Val(e.required_cn0_dbhz) - l
             ELSE NotNone(e.required_ebno_db) /\ cn0 - l >= Val(e.required_ebno_db)
    ELSE NotNone(e.required_cn0_dbhz) /\ cn0 >= Val(e.required_cn0_dbhz)

\* Position of the entry with this id in ascending-threshold order (ties
\* keep table order).
Rank(table, id) ==
    LET i == CHOOSE j \in 1..Len(table) : table[j].id = id
    IN  Cardinality({ j \in 1..Len(table) :
            \/ threshold(table[j]) < threshold(table[i])
            \/ threshold(table[j]) = threshold(table[i]) /\ j <= i })

CallSelectsLastMet(c) ==
    LET met == { i \in 1..Len(WfTable) :
                    ThresholdMet(WfTable[i], c.cn0_dbhz, c.bandwidth_hz, c.rolloff) }
    IN  IF WfTable = << >> THEN c.selected = None
        ELSE /\ c.selected # None
             /\ \E i \in 1..Len(WfTable) : WfTable[i] = Val(c.selected)
             /\ IF met = {} THEN Rank(WfTable, Val(c.selected).id) = 1
                ELSE /\ \E i \in met : WfTable[i] = Val(c.selected)
                     /\ \A i \in met :
                           Rank(WfTable, WfTable[i].id) <= Rank(WfTable, Val(c.selected).id)

\* C1: select_modcod returns the entry that is last in ascending-threshold
\* order among the entries whose threshold is met, the first entry of that
\* order when none is met (nothing for a table without entries), and of two
\* calls that differ only in C/N0 the one with the higher C/N0 never selects
\* an entry that is earlier in that order.
C1_SelectHighestMet ==
    /\ \A k \in 1..Len(wf_calls) : CallSelectsLastMet(wf_calls[k])
    /\ (Len(wf_calls) = 2 /\ WfTable # << >>) =>
          Rank(WfTable, Val(wf_calls[1].selected).id)
              <= Rank(WfTable, Val(wf_calls[2].selected).id)

\* Two calls with a bandwidth on a table of three entries: at the lower C/N0
\* nothing clears (fallback to the first entry), at the higher one two
\* entries clear and the later one is selected.
C1_Witness ==
    /\ Len(wf_calls) = 2
    /\ Len(WfTable) = 3
    /\ wf_calls[1].bandwidth_hz # None
    /\ \A i \in 1..3 : ~ ThresholdMet(WfTable[i], wf_calls[1].cn0_dbhz,
                                      wf_calls[1].bandwidth_hz, wf_calls[1].rolloff)
    /\ Cardinality({ i \in 1..3 : ThresholdMet(WfTable[i], wf_calls[2].cn0_dbhz,
                                      wf_calls[2].bandwidth_hz, wf_calls[2].rolloff) }) = 2
    /\ Rank(WfTable, Val(wf_calls[1].selected).id) = 1
    /\ Rank(WfTable, Val(wf_calls[2].selected).id) = 3

AnyMet(c) ==
    \E i \in 1..Len(WfTable) :
        ThresholdMet(WfTable[i], c.cn0_dbhz, c.bandwidth_hz, c.rolloff)

HasThreshold(e) == NotNone(e.required_cn0_dbhz) \/ NotNone(e.required_ebno_db)

\* C9 as stated: on a non-empty table select_modcod_with_margin never
\* returns a null entry; when no entry clears it returns the lowest-threshold
\* entry with a strictly negative (non-null) margin, and when an entry clears
\* the returned margin is >= 0.
C9_Original ==
    \A k \in 1..Len(wf_calls) :
        LET c == wf_calls[k]
            r == c.with_margin
        IN  WfTable # << >> =>
               /\ r.entry # None
               /\ ~ AnyMet(c) => /\ Rank(WfTable, Val(r.entry).id) = 1
                                 /\ r.margin # None
                                 /\ Val(r.margin) < 0
               /\ AnyMet(c) => /\ r.margin # None
                               /\ Val(r.margin) >= 0

\* C9 (amended): on a non-empty table the entry is never null.  Called with
\* a bandwidth: when no entry clears, the lowest-threshold entry is returned,
\* with a strictly negative margin if that entry carries a threshold and a
\* null margin if it carries none; when an entry clears, the margin is >= 0.
\* Called without a bandwidth the margin is always null.
C9_MarginFlagsFallback ==
    \A k \in 1..Len(wf_calls) :
        LET c == wf_calls[k]
            r == c.with_margin
        IN  WfTable # << >> =>
               /\ r.entry # None
               /\ c.bandwidth_hz = None => r.margin = None
               /\ (c.bandwidth_hz # None /\ ~ AnyMet(c)) =>
                     /\ Rank(WfTable, Val(r.entry).id) = 1
                     /\ IF HasThreshold(Val(r.entry))
                        THEN r.margin # None /\ Val(r.margin) < 0
                        ELSE r.margin = None
               /\ (c.bandwidth_hz # None /\ AnyMet(c)) =>
                     /\ r.margin # None
                     /\ Val(r.margin) >= 0

\* A call with a bandwidth in which no entry of a two-entry table clears: the
\* first entry in threshold order comes back with a negative margin.
C9_Witness ==
    /\ Len(wf_calls) >= 1
    /\ Len(WfTable) = 2
    /\ wf_calls[1].bandwidth_hz # None
    /\ ~ AnyMet(wf_calls[1])
    /\ wf_calls[1].with_margin.entry # None
    /\ Rank(WfTable, Val(wf_calls[1].with_margin.entry).id) = 1
    /\ wf_calls[1].with_margin.margin # None
    /\ Val(wf_calls[1].with_margin.margin) < 0

\* C10 as stated: constructing a strategy from a table with an entry that has
\* neither required_cn0_dbhz nor required_ebno_db fails, so no instance holds
\* a threshold-less entry and no selection returns one.
C10_ThresholdlessRejected ==
    (wf_strategy # None /\ ~ Val(wf_strategy).error) =>
        /\ \A i \in 1..Len(WfTable) : HasThreshold(WfTable[i])
        /\ \A k \in 1..Len(wf_calls) :
              wf_calls[k].selected # None => HasThreshold(Val(wf_calls[k].selected))


(***************************************************************************)
(* Properties of CalculationService.calculate                              *)
(***************************************************************************)
\* The request ended with a 200 response.
Succeeded == pc = "done" /\ NotNone(response) /\ Val(response).status_code = 200

\* The request ended with this error response.
Rejected(status_code, detail) ==
    /\ pc = "done"
    /\ response = Some([ status_code |-> status_code, detail |-> detail ])

\* The step ends the request with this error response.
Rejects(status_code, detail) ==
    /\ pc' = "done"
    /\ response' = Some([ status_code |-> status_code, detail |-> detail ])

\* The id a selection names, or nothing.
SelectedId(call) ==
    IF NotNone(call.returned.entry) THEN Some(Val(call.returned.entry).id) ELSE None

\* The modcod_selected payload that names this id, or nothing.
IdPayload(id) == IF NotNone(id) THEN Some([ id |-> Val(id) ]) ELSE None

\* C2: a successful Transparent calculation makes exactly one ModCod
\* selection, on the strategy's waveform, against the combined C/N0 (the
\* reciprocal sum of the two directions' C/N plus 10 log10 of the shared
\* bandwidth); uplink.modcod_selected, downlink.modcod_selected and the
\* response's modcod_selected.id all name the entry that call returned.
C2_OneSharedSelection ==
    (Succeeded /\ payload.transponder_type = "TRANSPARENT") =>
        /\ Len(select_calls) = 1
        /\ select_calls[1].on = "common"
        /\ select_calls[1].table = svc.waveform.table
        /\ select_calls[1].bandwidth_hz = Val(loc.shared_bandwidth)
        /\ select_calls[1].cn0_dbhz =
              DbOfInv(InvLin(Val(loc.uplink).cn_db) + InvLin(Val(loc.downlink).cn_db))
                 + TenLog10(Val(loc.shared_bandwidth))
        /\ Val(response).combined_cn0_dbhz = Some(select_calls[1].cn0_dbhz)
        /\ Val(response).results.uplink.modcod_selected = SelectedId(select_calls[1])
        /\ Val(response).results.downlink.modcod_selected = SelectedId(select_calls[1])
        /\ Val(response).modcod_selected = IdPayload(SelectedId(select_calls[1]))

\* A Transparent success in rain on the downlink: the two directions differ
\* in C/N, and both carry the id of the one selection.
C2_Witness ==
    /\ Succeeded
    /\ payload.transponder_type = "TRANSPARENT"
    /\ Len(select_calls) = 1
    /\ Val(loc.uplink).cn_db # Val(loc.downlink).cn_db
    /\ NotNone(select_calls[1].returned.entry)
    /\ Val(response).results.uplink.modcod_selected = SelectedId(select_calls[1])
    /\ Val(response).results.downlink.modcod_selected = SelectedId(select_calls[1])
    /\ Val(response).modcod_selected = IdPayload(SelectedId(select_calls[1]))

\* The smaller of two optional margins, whichever exists, or nothing.
SystemMargin(a, b) ==
    IF NotNone(a) /\ NotNone(b)
    THEN (IF Val(a) <= Val(b) THEN a ELSE b)
    ELSE IF NotNone(a) THEN a ELSE b

\* The selection of one direction of a Regenerative request was made on the
\* direction's own table against the direction's own C/N0, and the
\* direction's result carries its entry and its margin.
OwnSelection(call, on, waveform, before, after) ==
    /\ call.on = on
    /\ call.table = Val(waveform).table
    /\ call.cn0_dbhz = Val(before).cn0_dbhz
    /\ call.bandwidth_hz = Val(before).bandwidth_hz
    /\ call.returned = select_modcod_with_margin(Val(waveform).table, Val(before).cn0_dbhz,
                                                 Some(Val(before).bandwidth_hz),
                                                 payload.runtime.rolloff)
    /\ after.modcod_selected = SelectedId(call)
    /\ NotNone(call.returned.margin) => after.link_margin_db = call.returned.margin

C4_Original ==
    (Succeeded /\ payload.transponder_type = "REGENERATIVE") =>
        /\ Val(response).combined_link_margin_db = None
        /\ Val(response).combined_cn_db = None
        /\ DOMAIN Val(response).modcod_selected = { "uplink", "downlink" }

\* C4 (amended): a successful Regenerative response reports
\* combined_cn_db = null, combined_cn0_dbhz = null and no combined result
\* (no cross-direction combination); its combined_link_margin_db is the
\* smaller of the two directions' link_margin_db, which is not null; and its
\* modcod_selected holds two independent selections, the uplink one naming
\* the entry of the uplink call and the downlink one that of the downlink
\* call.
C4_RegenerativeReport ==
    (Succeeded /\ payload.transponder_type = "REGENERATIVE") =>
        /\ Val(response).combined_cn_db = None
        /\ Val(response).combined_cn0_dbhz = None
        /\ Val(response).results.combined = None
        /\ NotNone(Val(response).combined_link_margin_db)
        /\ Val(Val(response).combined_link_margin_db) =
              Min(Val(Val(response).results.uplink.link_margin_db),
                  Val(Val(response).results.downlink.link_margin_db))
        /\ DOMAIN Val(response).modcod_selected = { "uplink", "downlink" }
        /\ Len(select_calls) = 2
        /\ Val(response).modcod_selected.uplink = IdPayload(SelectedId(select_calls[1]))
        /\ Val(response).modcod_selected.downlink = IdPayload(SelectedId(select_calls[2]))

\* A Regenerative success whose two selections name different entries and
\* whose system margin is a number.
C4_Witness ==
    /\ Succeeded
    /\ payload.transponder_type = "REGENERATIVE"
    /\ Val(response).combined_cn_db = None
    /\ NotNone(Val(response).combined_link_margin_db)
    /\ NotNone(Val(response).modcod_selected.uplink)
    /\ NotNone(Val(response).modcod_selected.downlink)
    /\ Val(response).modcod_selected.uplink # Val(response).modcod_selected.downlink

\* The Transparent requests the bandwidth rule refuses: no bandwidth is given,
\* or a direction's own bandwidth differs from the shared one, or, with no
\* shared one, the two directions' bandwidths differ.
TransparentBandwidthRefused(runtime) ==
    \/ /\ IsNone(runtime.bandwidth_hz)
       /\ IsNone(runtime.uplink.bandwidth_hz)
       /\ IsNone(runtime.downlink.bandwidth_hz)
    \/ /\ NotNone(runtime.bandwidth_hz)
       /\ \/ /\ NotNone(runtime.uplink.bandwidth_hz)
             /\ runtime.uplink.bandwidth_hz # runtime.bandwidth_hz
          \/ /\ NotNone(runtime.downlink.bandwidth_hz)
             /\ runtime.downlink.bandwidth_hz # runtime.bandwidth_hz
    \/ /\ IsNone(runtime.bandwidth_hz)
       /\ NotNone(runtime.uplink.bandwidth_hz)
       /\ NotNone(runtime.downlink.bandwidth_hz)
       /\ runtime.uplink.bandwidth_hz # runtime.downlink.bandwidth_hz

\* The step ends the request with a 400.
Rejects400 == pc' = "done" /\ NotNone(response') /\ Val(response').status_code = 400

\* C5: once the handler reaches the bandwidth rule, a Transparent request is
\* refused with a 400 when no bandwidth is given, when a direction's explicit
\* bandwidth differs from the shared one, or when, with no shared one, the
\* two directions' bandwidths differ; otherwise it goes on with one bandwidth
\* for both directions, and both results carry it.  A Regenerative request is
\* refused with a 400 when a shared bandwidth is supplied, and when a
\* direction lacks its own bandwidth.
C5_BandwidthRule ==
    [][ /\ (pc = "resolve_bandwidth" /\ payload.transponder_type = "TRANSPARENT") =>
              IF TransparentBandwidthRefused(payload.runtime)
              THEN Rejects400
              ELSE /\ pc' = "build_directions"
                   /\ NotNone(loc'.shared_bandwidth)
                   /\ payload'.runtime.uplink.bandwidth_hz = loc'.shared_bandwidth
                   /\ payload'.runtime.downlink.bandwidth_hz = loc'.shared_bandwidth
        /\ (pc = "combine" /\ payload.transponder_type = "TRANSPARENT") =>
              /\ Val(response').results.uplink.bandwidth_hz = Val(loc.shared_bandwidth)
              /\ Val(response').results.downlink.bandwidth_hz = Val(loc.shared_bandwidth)
        /\ (pc = "resolve_bandwidth" /\ payload.transponder_type = "REGENERATIVE") =>
              IF NotNone(payload.runtime.bandwidth_hz)
              THEN Rejects400
              ELSE pc' = "build_directions" /\ payload' = payload
        /\ ( /\ pc = "build_directions"
             /\ payload.transponder_type = "REGENERATIVE"
             /\ \/ IsNone(payload.runtime.uplink.bandwidth_hz)
                \/ IsNone(payload.runtime.downlink.bandwidth_hz) ) => Rejects400
      ]_vars

\* The test's case: a Transparent request with no shared bandwidth and two
\* different per-direction bandwidths, refused with the 400 of the rule.
C5_Witness ==
    /\ Rejected(400, "Transparent transponders use a common bandwidth_hz for uplink and downlink")
    /\ payload.transponder_type = "TRANSPARENT"
    /\ IsNone(payload.runtime.bandwidth_hz)
    /\ NotNone(payload.runtime.uplink.bandwidth_hz)
    /\ NotNone(payload.runtime.downlink.bandwidth_hz)
    /\ payload.runtime.uplink.bandwidth_hz # payload.runtime.downlink.bandwidth_hz

\* A runtime direction block with everything _build_direction requires.
Complete(direction_data) ==
    /\ NotNone(direction_data.frequency_hz) /\ NotNone(direction_data.bandwidth_hz)
    /\ NotNone(direction_data.ground_lat_deg) /\ NotNone(direction_data.ground_lon_deg)

\* The elevation of a direction as the request determines it.
RequestedElevation(direction_data, sat_longitude) ==
    IF NotNone(direction_data.elevation_deg) THEN Val(direction_data.elevation_deg)
    ELSE compute_elevation(Val(sat_longitude), Val(direction_data.ground_lat_deg),
                           Val(direction_data.ground_lon_deg))

\* No elevation supplied, and the geometry puts the satellite below the
\* station's horizon.
SubHorizon(direction_data, sat_longitude) ==
    /\ IsNone(direction_data.elevation_deg)
    /\ RequestedElevation(direction_data, sat_longitude) < 0

\* C6: when a direction's elevation is not supplied and the elevation
\* computed from the geometry is below 0 degrees, the request fails with a
\* 400 that names the direction (the uplink first); the parameters a
\* direction is evaluated with hold the supplied or computed elevation
\* itself, which is never negative.
C6_SubHorizonRejected ==
    [][ /\ ( /\ pc = "build_directions"
             /\ NotNone(resolve_sat_longitude(payload, loc))
             /\ Complete(payload.runtime.uplink) ) =>
              IF SubHorizon(payload.runtime.uplink, resolve_sat_longitude(payload, loc))
              THEN Rejects(400, "Computed elevation for uplink is below horizon")
              ELSE ( /\ RequestedElevation(payload.runtime.uplink,
                                           resolve_sat_longitude(payload, loc)) >= 0
                     /\ Complete(payload.runtime.downlink)
                     /\ SubHorizon(payload.runtime.downlink,
                                   resolve_sat_longitude(payload, loc)) ) =>
                        Rejects(400, "Computed elevation for downlink is below horizon")
        /\ (pc = "build_directions" /\ pc' = "resolve_context") =>
              /\ Val(loc'.uplink_params).elevation_deg =
                    RequestedElevation(payload.runtime.uplink, loc'.sat_longitude)
              /\ Val(loc'.downlink_params).elevation_deg =
                    RequestedElevation(payload.runtime.downlink, loc'.sat_longitude)
        /\ NotNone(loc'.uplink_params) => Val(loc'.uplink_params).elevation_deg >= 0
        /\ NotNone(loc'.downlink_params) => Val(loc'.downlink_params).elevation_deg >= 0
        /\ pc = "run_strategy" =>
              /\ loc'.uplink_params = loc.uplink_params
              /\ loc'.downlink_params = loc.downlink_params
      ]_vars

\* A request whose downlink station sees the satellite below the horizon and
\* supplies no elevation, refused with the 400 that names the downlink.
C6_Witness ==
    /\ Rejected(400, "Computed elevation for downlink is below horizon")
    /\ IsNone(payload.runtime.downlink.elevation_deg)
    /\ Complete(payload.runtime.downlink)
    /\ IsNone(payload.runtime.sat_longitude_deg)
    /\ compute_elevation(Val(Val(loc.sat).longitude_deg), Val(payload.runtime.downlink.ground_lat_deg),
                         Val(payload.runtime.downlink.ground_lon_deg)) < 0

\* The values the request can give for the four context values: what the
\* assets store, what their components add up to, and the overrides.
TxEirpSources(tx_es) ==
    { Val(Attr(tx_es, key)) : key \in { k \in { "eirp_dbw", "tx_power_dbw" } :
                                           NotNone(Attr(tx_es, k)) } }
      \cup (IF NotNone(Attr(tx_es, "tx_power_dbw")) /\ NotNone(Attr(tx_es, "antenna_gain_tx_db"))
            THEN { Val(Attr(tx_es, "tx_power_dbw")) + Val(Attr(tx_es, "antenna_gain_tx_db")) }
            ELSE { })

RxGtSources(rx_es) ==
    (IF NotNone(Attr(rx_es, "gt_db_per_k")) THEN { Val(Attr(rx_es, "gt_db_per_k")) } ELSE { })
      \cup (IF /\ NotNone(Attr(rx_es, "antenna_gain_rx_db"))
               /\ NotNone(Attr(rx_es, "noise_temperature_k"))
               /\ Val(Attr(rx_es, "noise_temperature_k")) > 0
            THEN { Val(Attr(rx_es, "antenna_gain_rx_db"))
                     - TenLog10(Val(Attr(rx_es, "noise_temperature_k"))) }
            ELSE { })

SatelliteSources(override, sat, key) ==
    (IF NotNone(override[key]) THEN { Val(override[key]) } ELSE { })
      \cup (IF NotNone(Attr(sat, key)) THEN { Val(Attr(sat, key)) } ELSE { })

ContextInUse == pc \in { "run_strategy", "apply_impairments", "combine" } \/ Succeeded

\* Both the sum of the components and the stored value exist.
TxDerivable(tx_es) ==
    NotNone(Attr(tx_es, "tx_power_dbw")) /\ NotNone(Attr(tx_es, "antenna_gain_tx_db"))

RxDerivable(rx_es) ==
    /\ NotNone(Attr(rx_es, "antenna_gain_rx_db"))
    /\ NotNone(Attr(rx_es, "noise_temperature_k"))
    /\ Val(Attr(rx_es, "noise_temperature_k")) > 0

TxDerived(tx_es) == Val(Attr(tx_es, "tx_power_dbw")) + Val(Attr(tx_es, "antenna_gain_tx_db"))

RxDerived(rx_es) ==
    Val(Attr(rx_es, "antenna_gain_rx_db")) - TenLog10(Val(Attr(rx_es, "noise_temperature_k")))

\* The satellite's values: the override when one is given, else the stored
\* value.
SatelliteValuesResolved ==
    /\ svc.context.uplink_rx_gt_db_per_k =
          IF NotNone(payload.overrides.satellite.gt_db_per_k)
          THEN Val(payload.overrides.satellite.gt_db_per_k)
          ELSE Val(Attr(loc.sat, "gt_db_per_k"))
    /\ svc.context.downlink_tx_eirp_dbw =
          IF NotNone(payload.overrides.satellite.eirp_dbw)
          THEN Val(payload.overrides.satellite.eirp_dbw)
          ELSE Val(Attr(loc.sat, "eirp_dbw"))

\* C8 as stated: the override when one is given, otherwise the value derived
\* from component data when derivable, otherwise the asset's stored value.
C8_Original ==
    ContextInUse =>
        /\ SatelliteValuesResolved
        /\ TxDerivable(loc.tx_es) =>
              svc.context.uplink_tx_eirp_dbw = TxDerived(loc.tx_es)
        /\ (~ TxDerivable(loc.tx_es) /\ NotNone(Attr(loc.tx_es, "eirp_dbw"))) =>
              svc.context.uplink_tx_eirp_dbw = Val(Attr(loc.tx_es, "eirp_dbw"))
        /\ RxDerivable(loc.rx_es) =>
              svc.context.downlink_rx_gt_db_per_k = RxDerived(loc.rx_es)
        /\ (~ RxDerivable(loc.rx_es) /\ NotNone(Attr(loc.rx_es, "gt_db_per_k"))) =>
              svc.context.downlink_rx_gt_db_per_k = Val(Attr(loc.rx_es, "gt_db_per_k"))

\* C8 (amended): each EIRP and G/T value of the context is resolved with the
\* precedence: the explicit override when one is given, otherwise the
\* asset's stored value, otherwise the value derived from component data (TX
\* power + TX antenna gain; RX antenna gain - 10 log10(noise temperature))
\* when derivable.
C8_StoredBeforeDerived ==
    ContextInUse =>
        /\ SatelliteValuesResolved
        /\ NotNone(Attr(loc.tx_es, "eirp_dbw")) =>
              svc.context.uplink_tx_eirp_dbw = Val(Attr(loc.tx_es, "eirp_dbw"))
        /\ (IsNone(Attr(loc.tx_es, "eirp_dbw")) /\ TxDerivable(loc.tx_es)) =>
              svc.context.uplink_tx_eirp_dbw = TxDerived(loc.tx_es)
        /\ NotNone(Attr(loc.rx_es, "gt_db_per_k")) =>
              svc.context.downlink_rx_gt_db_per_k = Val(Attr(loc.rx_es, "gt_db_per_k"))
        /\ (IsNone(Attr(loc.rx_es, "gt_db_per_k")) /\ RxDerivable(loc.rx_es)) =>
              svc.context.downlink_rx_gt_db_per_k = RxDerived(loc.rx_es)

\* A transmit station that stores an EIRP and components adding up to a
\* different one, an override on the satellite's EIRP over a different
\* stored value: the stored EIRP and the override are in the context.
C8_Witness ==
    /\ ContextInUse
    /\ NotNone(Attr(loc.tx_es, "eirp_dbw"))
    /\ TxDerivable(loc.tx_es)
    /\ TxDerived(loc.tx_es) # Val(Attr(loc.tx_es, "eirp_dbw"))
    /\ svc.context.uplink_tx_eirp_dbw = Val(Attr(loc.tx_es, "eirp_dbw"))
    /\ NotNone(payload.overrides.satellite.eirp_dbw)
    /\ NotNone(Attr(loc.sat, "eirp_dbw"))
    /\ payload.overrides.satellite.eirp_dbw # Attr(loc.sat, "eirp_dbw")
    /\ svc.context.downlink_tx_eirp_dbw = Val(payload.overrides.satellite.eirp_dbw)

\* The details of the request validation failures: the bandwidth rule, the
\* required direction fields, the horizon check and the four context values.
ValidationDetails ==
    { "bandwidth_hz is required for Transparent transponders",
      "Transparent transponders use a common bandwidth_hz for uplink and downlink",
      "Regenerative transponders require per-link bandwidth_hz values",
      "frequency_hz, bandwidth_hz, and ground coordinates are required in runtime",
      "Computed elevation for uplink is below horizon",
      "Computed elevation for downlink is below horizon",
      "TX earth station EIRP is required", "Satellite G/T is required",
      "RX earth station G/T is required", "Satellite EIRP is required" }

\* The request ended with one of the validation failures.
ValidationFailure ==
    /\ pc = "done" /\ NotNone(response)
    /\ Val(response).status_code = 400
    /\ Val(response).detail \in ValidationDetails

\* strategy.calculate, and with it the propagation model, has run for a
\* direction.
Propagated == NotNone(loc.uplink) \/ NotNone(loc.downlink)

\* The request as it stands passes every one of the validations (the
\* elevation is the one _build_direction took from the request).
PassesValidation ==
    /\ Complete(payload.runtime.uplink) /\ Complete(payload.runtime.downlink)
    /\ NotNone(loc.uplink_params) /\ Val(loc.uplink_params).elevation_deg >= 0
    /\ NotNone(loc.downlink_params) /\ Val(loc.downlink_params).elevation_deg >= 0
    /\ IF payload.transponder_type = "TRANSPARENT"
       THEN payload.runtime.uplink.bandwidth_hz = payload.runtime.downlink.bandwidth_hz
       ELSE IsNone(payload.runtime.bandwidth_hz)
    /\ NotNone(resolve_tx_eirp(loc.tx_es))
    /\ NotNone(value_with_override(payload.overrides.satellite, loc.sat, "gt_db_per_k"))
    /\ NotNone(resolve_rx_gt(loc.rx_es))
    /\ NotNone(value_with_override(payload.overrides.satellite, loc.sat, "eirp_dbw"))

\* C23: every request validation failure (bandwidth rule, missing direction
\* fields, sub-horizon elevation, missing EIRP or G/T) is raised before the
\* first propagation computation: a request that ends with one of them has
\* no direction result, and a direction result exists only for a request
\* that passes all of them; the step that computes the first direction
\* result is the strategy step, taken after the last validation.
C23_ValidationBeforePropagation ==
    [][ /\ ValidationFailure' => ~ Propagated'
        /\ Propagated' => PassesValidation'
        /\ (~ Propagated /\ Propagated') => pc = "run_strategy"
      ]_vars

\* A request whose uplink is complete and above the horizon, refused for its
\* downlink's elevation with no direction result computed.
C23_Witness ==
    /\ ValidationFailure /\ ~ Propagated
    /\ Val(response).detail = "Computed elevation for downlink is below horizon"
    /\ Complete(payload.runtime.uplink)
    /\ RequestedElevation(payload.runtime.uplink, resolve_sat_longitude(payload, loc)) >= 0

\* The margin of a C/N0 against the threshold and bitrate of a selection.
MarginAgainst(sel, cn0_dbhz) ==
    Some(cn0_dbhz - TenLog10(Val(sel.bitrate)) - Val(sel.required_ebno))

\* A Transparent success whose one selection names a ModCod.
SharedSelection ==
    /\ Succeeded /\ payload.transponder_type = "TRANSPARENT"
    /\ Len(select_calls) = 1
    /\ NotNone(select_calls[1].returned.entry)

\* C24: in a successful Transparent response each direction's link_margin_db
\* is the direction's own C/N0 against the threshold and bitrate of the
\* globally selected ModCod, the same two the combined margin is taken
\* against, so the two direction margins differ by what the two C/N0 differ
\* by.
C24_GlobalThreshold ==
    SharedSelection =>
        /\ NotNone(select_calls[1].returned.required_ebno)
        /\ NotNone(select_calls[1].returned.bitrate)
        /\ Val(response).results.uplink.link_margin_db =
              MarginAgainst(select_calls[1].returned, Val(response).results.uplink.cn0_dbhz)
        /\ Val(response).results.downlink.link_margin_db =
              MarginAgainst(select_calls[1].returned, Val(response).results.downlink.cn0_dbhz)
        /\ Val(response).combined_link_margin_db =
              MarginAgainst(select_calls[1].returned, Val(Val(response).combined_cn0_dbhz))
        /\ Val(Val(response).results.uplink.link_margin_db)
              - Val(Val(response).results.downlink.link_margin_db)
           = Val(response).results.uplink.cn0_dbhz - Val(response).results.downlink.cn0_dbhz

\* A Transparent success in which the two directions differ in C/N0, the
\* selected ModCod states its threshold as an Eb/N0, and each direction's
\* margin is its own C/N0 against that threshold: neither is the combined
\* margin.
C24_Witness ==
    /\ SharedSelection
    /\ NotNone(Val(select_calls[1].returned.entry).required_ebno_db)
    /\ Val(response).results.uplink.cn0_dbhz # Val(response).results.downlink.cn0_dbhz
    /\ Val(response).results.uplink.link_margin_db =
          MarginAgainst(select_calls[1].returned, Val(response).results.uplink.cn0_dbhz)
    /\ Val(response).results.uplink.link_margin_db # Val(response).combined_link_margin_db
    /\ Val(response).results.downlink.link_margin_db # Val(response).combined_link_margin_db

\* A Transparent success that reports a combined margin.
CombinedMarginReported ==
    /\ Succeeded /\ payload.transponder_type = "TRANSPARENT"
    /\ NotNone(Val(response).combined_link_margin_db)

StatedLongitude ==
    IF NotNone(payload.runtime.sat_longitude_deg) THEN payload.runtime.sat_longitude_deg
    ELSE Attr(loc.sat, "longitude_deg")

\* C29: when the request supplies runtime.sat_longitude_deg, 0 included, that
\* value and not the longitude stored on the satellite is the longitude the
\* geometry of both directions is computed with and the one echoed in
\* runtime_echo; the stored longitude is used only when the request supplies
\* none, so a request that supplies one is never refused for lack of one.
C29_SuppliedLongitudeUsed ==
    /\ NotNone(loc.sat_longitude) => loc.sat_longitude = StatedLongitude
    /\ Succeeded => Val(response).runtime_echo.sat_longitude_deg = StatedLongitude
    /\ Rejected(400, "Satellite longitude is required") =>
          IsNone(payload.runtime.sat_longitude_deg)

\* The same for every supplied longitude other than 0; a supplied 0 is
\* treated as none.
NonZeroLongitudeUsed ==
    /\ NotNone(loc.sat_longitude) =>
          loc.sat_longitude = IF payload.runtime.sat_longitude_deg = Some(0)
                              THEN Attr(loc.sat, "longitude_deg") ELSE StatedLongitude
    /\ Succeeded =>
          Val(response).runtime_echo.sat_longitude_deg = loc.sat_longitude
    /\ Rejected(400, "Satellite longitude is required") =>
          /\ payload.runtime.sat_longitude_deg \in { None, Some(0) }
          /\ IsNone(Attr(loc.sat, "longitude_deg"))

(***************************************************************************)
(* Properties of table construction (SpecConstruct)                        *)
(***************************************************************************)
Constructed == wf_strategy # None

\* The table handed to the constructor holds an entry whose
\* info_bits_per_symbol is given and is zero or negative.
HasNonPositiveInfoBits ==
    /\ NotNone(wf_arg)
    /\ \E i \in 1..Len(Val(wf_arg)) :
          /\ NotNone(Val(wf_arg)[i].info_bits_per_symbol)
          /\ Val(Val(wf_arg)[i].info_bits_per_symbol) <= 0

\* C11: a table holding an entry with a non-positive info_bits_per_symbol,
\* given as a ModcodEntry or as a dictionary, is rejected by the constructor
\* (the ValueError that _fetch_modcod turns into a 400), so no selection is
\* ever made from it.
C11_NonPositiveRejected ==
    (Constructed /\ HasNonPositiveInfoBits) => Val(wf_strategy).error

(***************************************************************************)
(* Properties of effective_spectral_efficiency (SpecEfficiency)            *)
(***************************************************************************)
\* The roll-off / overhead a call is to use before clamping: the explicit
\* argument, else the entry's stored value, else the family default
\* (hundredths).
StatedFraction(call) ==
    IF NotNone(call.rolloff) THEN Val(call.rolloff)
    ELSE IF NotNone(call.entry.rolloff) THEN Val(call.entry.rolloff)
    ELSE IF call.name = "5G_NR" THEN 14 ELSE 20

\* info / (1 + a) with a >= 0, resp. info * (1 - a) with 0 <= a <= 1, in
\* thousandths (rounded down).
StatedEfficiency(call) ==
    LET Info == Val(call.entry.info_bits_per_symbol)
        RollOff(a) == (Info * 1000) \div (100 + a)
        Overhead(a) == (Info * (100 - a)) \div 10
        Raw == StatedFraction(call)
    IN  IF call.name = "5G_NR"
        THEN Overhead(IF Raw < 0 THEN 0 ELSE IF Raw > 100 THEN 100 ELSE Raw)
        ELSE RollOff(IF Raw < 0 THEN 0 ELSE Raw)

\* C12: effective_spectral_efficiency(entry, rolloff) is info / (1 + a) for
\* the roll-off family and info * (1 - a) for the overhead family, a being
\* the call argument when given, else the entry's stored rolloff, else the
\* family default (0.2 / 0.14), clamped to a >= 0 resp. 0 <= a <= 1.
C12_EffectiveSpectralEfficiency ==
    \A k \in 1..Len(wf_calls) : wf_calls[k].efficiency = StatedEfficiency(wf_calls[k])

\* Both families called on an entry that stores a roll-off: once with an
\* argument that the overhead family clamps, once without an argument.
C12_Witness ==
    /\ Len(wf_calls) = 2
    /\ wf_calls[1].name = "5G_NR"
    /\ wf_calls[1].rolloff = Some(150)
    /\ wf_calls[1].efficiency = 0
    /\ wf_calls[2].name = "DVB_S2X"
    /\ IsNone(wf_calls[2].rolloff)
    /\ wf_calls[2].entry.rolloff = Some(12)
    /\ wf_calls[2].efficiency = 892

\* The handler cut at its stages ends where the handler run as one call
\* ends: same response, same selection calls, same request dictionary.
StagesAgreeWithCall ==
    pc = "done" =>
        /\ calculate(payload).response = response
        /\ calculate(payload).select_calls = select_calls
        /\ calculate(payload).payload = payload

(***************************************************************************)
(* Properties of the sweep (SpecSweep)                                     *)
(***************************************************************************)
Sweeping == sw # None /\ Val(sw).stage \in { "loop", "done", "raised" }

SweepDone == sw # None /\ Val(sw).stage = "done"

\* Every generated value is a whole number of the swept field's unit.
SweepValuesWhole ==
    Sweeping => \A k \in 1..Len(Val(sw).values) : Val(sw).values[k] % 1000 = 0

RainSweep ==
    /\ Sweeping
    /\ Val(sw).sweep.parameter_path \in { "runtime.uplink.rain_rate_mm_per_hr",
                                         "runtime.downlink.rain_rate_mm_per_hr" }

\* Points i and j of the sweep are both computed with a margin, j at the
\* higher (or the same) rain rate.
RainPair(i, j) ==
    /\ i \in 1..Len(Val(sw).points)
    /\ j \in 1..Len(Val(sw).points)
    /\ Val(sw).points[i].sweep_value <= Val(sw).points[j].sweep_value
    /\ NotNone(Val(sw).points[i].combined_link_margin_db)
    /\ NotNone(Val(sw).points[j].combined_link_margin_db)

\* The ModCod entries the calculation of point k selected, in call order.
Selections(k) ==
    [ c \in 1..Len(Val(sw).calls[k].select_calls) |->
        Val(sw).calls[k].select_calls[c].returned.entry ]

MarginOf(k) == Val(Val(sw).points[k].combined_link_margin_db)

Generated == Sweeping

\* C14: execute returns exactly N points, one per generated value and in
\* generation order, whether or not points fail; the first value is start,
\* the last is end, and consecutive values differ by the same step.
C14_EvenlySpaced ==
    /\ Generated =>
          /\ Len(Val(sw).values) = Val(sw).sweep.steps
          /\ Val(sw).values[1] = Val(sw).sweep.start
          /\ Val(sw).values[Val(sw).sweep.steps] = Val(sw).sweep.end
          /\ \A k \in 2..(Val(sw).sweep.steps - 1) :
                Val(sw).values[k + 1] - Val(sw).values[k]
                    = Val(sw).values[k] - Val(sw).values[k - 1]
          /\ Val(sw).stage # "raised"
    /\ SweepDone =>
          /\ Len(Val(sw).points) = Val(sw).sweep.steps
          /\ \A k \in 1..Val(sw).sweep.steps :
                Val(sw).points[k].sweep_value = Val(sw).values[k]

\* The request point k is computed from: the base request with the k-th
\* value at the swept path.
RequestOf(k) ==
    set_nested_value(
        Val(sw).base_payload,
        Val(SWEEPABLE_PARAMETERS(Val(sw).sweep.parameter_path)).keys,
        field_value(Val(SWEEPABLE_PARAMETERS(Val(sw).sweep.parameter_path)).keys,
                    Val(sw).values[k]))

Failed(k) == calculate(RequestOf(k)).raised # ""

\* C15: an error raised by the calculation of one point never aborts the
\* sweep; the point is recorded with viable = false, null metrics and the
\* error message as its warning, and every other point is what its own
\* calculation gives.
C15_FailuresIsolated ==
    Sweeping =>
        /\ Val(sw).stage # "raised"
        /\ \A k \in 1..Len(Val(sw).points) :
              IF Failed(k)
              THEN Val(sw).points[k] =
                      SweepPoint(Val(sw).values[k], None, None, None, FALSE,
                                 << Val(calculate(RequestOf(k)).response).detail >>)
              ELSE Val(sw).points[k] =
                      extract_sweep_point(Val(calculate(RequestOf(k)).response),
                                          Val(sw).values[k], Val(sw).threshold_db)

\* C16: every point whose calculation succeeded is viable exactly when its
\* combined margin is at least the threshold, if a threshold is set, and is
\* viable if none is set; so with a threshold no point without a combined
\* margin of at least the threshold is reported viable.
C16_ViableMeansMargin ==
    Sweeping =>
        \A k \in 1..Len(Val(sw).points) :
            Val(sw).points[k].warnings = << >> =>
                IF IsNone(Val(sw).threshold_db)
                THEN Val(sw).points[k].viable
                ELSE Val(sw).points[k].viable =
                        /\ NotNone(Val(sw).points[k].combined_link_margin_db)
                        /\ Val(Val(sw).points[k].combined_link_margin_db)
                              >= Val(Val(sw).threshold_db)

\* value lies within the declared bounds of the path (sweep.py 11-26).
WithinDeclared(parameter_path, value) ==
    /\ NotNone(Val(SWEEPABLE_PARAMETERS(parameter_path)).min_bound) =>
          value >= FloatOf(Val(Val(SWEEPABLE_PARAMETERS(parameter_path)).min_bound))
    /\ NotNone(Val(SWEEPABLE_PARAMETERS(parameter_path)).max_bound) =>
          value <= FloatOf(Val(Val(SWEEPABLE_PARAMETERS(parameter_path)).max_bound))

\* The conditions the allow-list puts on a configuration, as stated.
StatedAcceptable(config) ==
    /\ NotNone(SWEEPABLE_PARAMETERS(config.parameter_path))
    /\ 2 <= config.steps
    /\ config.steps <= 200
    /\ config.start # config.end
    /\ \A v \in { config.start, config.end } : WithinDeclared(config.parameter_path, v)

\* C18: a configuration is accepted only if its path is in the allow-list,
\* 2 <= steps <= 200, start # end and both ends are within the declared
\* bounds of the path; every value a sweep evaluates is within those bounds,
\* and a rejected configuration evaluates no point.
C18_ValuesWithinBounds ==
    (NotNone(sw) /\ Val(sw).stage # "request") =>
        /\ Val(sw).stage # "rejected" => StatedAcceptable(Val(sw).sweep)
        /\ Val(sw).stage = "rejected" => Val(sw).points = << >> /\ Val(sw).calls = << >>
        /\ \A k \in 1..Len(Val(sw).calls) :
              WithinDeclared(Val(sw).sweep.parameter_path, Val(sw).values[k])

\* C20: calculate leaves the request it was given as it was, and the sweep
\* leaves its base request as it was and gives every point that request with
\* only the swept path replaced.
C20_RequestsUnchanged ==
    [][ (NotNone(sw) /\ Val(sw).stage = "loop") =>
            /\ Val(sw').base_payload = Val(sw).base_payload
            /\ \A k \in 1..Len(Val(sw').calls) :
                  /\ Val(sw').calls[k].payload =
                        set_nested_value(
                            Val(sw).base_payload,
                            Val(SWEEPABLE_PARAMETERS(Val(sw).sweep.parameter_path)).keys,
                            field_value(
                                Val(SWEEPABLE_PARAMETERS(Val(sw).sweep.parameter_path)).keys,
                                Val(sw).values[k]))
                  /\ calculate(Val(sw').calls[k].payload).payload = Val(sw').calls[k].payload
      ]_vars

\* The sweep's own part of C20: the base request and the point requests.
SweepKeepsBase ==
    [][ (NotNone(sw) /\ Val(sw).stage = "loop") =>
            /\ Val(sw').base_payload = Val(sw).base_payload
            /\ \A k \in 1..Len(Val(sw').calls) : Val(sw').calls[k].payload = RequestOf(k)
      ]_vars

(***************************************************************************)
(* compute_crossover                                                       *)
(***************************************************************************)
Crossed == NotNone(sw) /\ Val(sw).stage = "crossed"

\* Pair (i, i + 1) has two margins on opposite sides of the threshold.
Crossing(i) ==
    /\ NotNone(Val(sw).points[i].combined_link_margin_db)
    /\ NotNone(Val(sw).points[i + 1].combined_link_margin_db)
    /\ (Val(Val(sw).points[i].combined_link_margin_db) - Val(Val(sw).threshold_db))
          * (Val(Val(sw).points[i + 1].combined_link_margin_db) - Val(Val(sw).threshold_db)) < 0

HasCrossing == NotNone(Val(sw).threshold_db) /\ \E i \in 1..2 : Crossing(i)

FirstCrossing == CHOOSE i \in 1..2 : Crossing(i) /\ \A j \in 1..(i - 1) : ~ Crossing(j)

\* v1 + (T - m1) / (m2 - m1) * (v2 - v1) in floats, for the pair (i, i + 1).
StatedCrossover(i) ==
    FloatOp("+", Val(sw).points[i].sweep_value,
        FloatOp("*",
            FloatOp("/",
                FloatOp("-", FloatOf(Val(Val(sw).threshold_db)),
                             FloatOf(Val(Val(sw).points[i].combined_link_margin_db))),
                FloatOp("-", FloatOf(Val(Val(sw).points[i + 1].combined_link_margin_db)),
                             FloatOf(Val(Val(sw).points[i].combined_link_margin_db)))),
            FloatOp("-", Val(sw).points[i + 1].sweep_value, Val(sw).points[i].sweep_value)))

\* The distance between neighbouring floats of magnitude x.
FloatSpacing(x) ==
    IF x = 0 \/ Decade(Abs(x)) + 1 <= FloatDigits THEN 1
    ELSE Pow10Int(Decade(Abs(x)) + 1 - FloatDigits)

\* x is between the sweep values of the pair (i, i + 1), up to slack.
Between(x, i, slack) ==
    /\ x >= Min(Val(sw).points[i].sweep_value, Val(sw).points[i + 1].sweep_value) - slack
    /\ x <= Max(Val(sw).points[i].sweep_value, Val(sw).points[i + 1].sweep_value) + slack

\* C17 as stated: the crossover of the first crossing pair is the
\* interpolated value and lies strictly between the pair's sweep values.
C17_Original ==
    Crossed =>
        IF HasCrossing
        THEN /\ Val(sw).crossover = Some(StatedCrossover(FirstCrossing))
             /\ Between(Val(Val(sw).crossover), FirstCrossing, -1)
        ELSE Val(sw).crossover = None

\* C17: compute_crossover returns, for the first consecutive pair whose
\* margins are both non-null and lie on opposite sides of the threshold, the
\* value v1 + (T - m1) / (m2 - m1) * (v2 - v1) evaluated in floats, which is
\* between v1 and v2 up to the rounding of the floats at that magnitude; it
\* returns null when the threshold is null or no such pair exists (a margin
\* equal to T, or a null margin between two sides, makes no crossing).
C17_Crossover ==
    Crossed =>
        IF HasCrossing
        THEN /\ Val(sw).crossover = Some(StatedCrossover(FirstCrossing))
             /\ Between(Val(Val(sw).crossover), FirstCrossing,
                        FloatSpacing(Abs(Val(sw).points[FirstCrossing].sweep_value)
                                     + Abs(Val(sw).points[FirstCrossing + 1].sweep_value)))
        ELSE Val(sw).crossover = None

\* The example: margins 10, 3, -4 dB at 0, 50, 100 and threshold 5 dB.
C17_Witness ==
    /\ Crossed
    /\ [ k \in 1..3 |-> Val(sw).points[k].sweep_value ] = << 0, 50000, 100000 >>
    /\ [ k \in 1..3 |-> Val(sw).points[k].combined_link_margin_db ]
          = << Some(100), Some(30), Some(-40) >>
    /\ Val(sw).threshold_db = Some(50)
    /\ NotNone(Val(sw).crossover)
    /\ Val(Val(sw).crossover) > 35000
    /\ Val(Val(sw).crossover) < 36000

(***************************************************************************)
(* Calculations in flight at the same time.                                *)
(***************************************************************************)
InFlight == IF NotNone(parked) THEN { Running, Val(parked).frame } ELSE { }

\* The table of the strategy built from the table the request p names for
\* the selection made on "common", "uplink" or "downlink".
OwnTable(p, on) ==
    CASE on = "common" -> Val(fetch_modcod(p.modcod_table_id).waveform).table
      [] on = "uplink" ->
            Val(waveform_or_default(fetch_modcod(p.uplink_modcod_table_id).waveform)).table
      [] on = "downlink" ->
            Val(waveform_or_default(fetch_modcod(p.downlink_modcod_table_id).waveform)).table

\* The context resolved from the assets the request p names.
OwnContext(p) == resolve_context(p, fetch_assets(p, NoLocals)).context

\* C19: however the calculations in flight interleave at their repository
\* awaits, and whatever requests follow one another, each calculation
\* selects on the table of the strategy built from the table its own
\* request names, evaluates with the context resolved from its own assets,
\* and ends as it would have run alone.
C19_OwnTableAndContext ==
    \A f \in InFlight :
        /\ \A k \in 1..Len(f.select_calls) :
              f.select_calls[k].table = OwnTable(f.payload, f.select_calls[k].on)
        /\ f.pc \in { "run_strategy", "apply_impairments", "combine" } =>
              f.svc.context = OwnContext(f.payload)
        /\ f.pc = "done" =>
              /\ calculate(f.payload).response = f.response
              /\ calculate(f.payload).select_calls = f.select_calls

\* Two calculations that took turns and both succeeded, on different tables
\* and with different contexts.
C19_Witness ==
    /\ NotNone(parked)
    /\ Val(parked).switches >= 3
    /\ \A f \in InFlight :
          f.pc = "done" /\ NotNone(f.response) /\ Val(f.response).status_code = 200
              /\ Len(f.select_calls) >= 1
    /\ Running.select_calls[1].table # Val(parked).frame.select_calls[1].table
    /\ Running.svc.context # Val(parked).frame.svc.context

(***************************************************************************)
(* core/impairments.py                                                     *)
(***************************************************************************)
Applied == NotNone(imp) /\ Val(imp).stage = "applied"

Impaired == Applied /\ Val(imp).base.bandwidth_hz # 0

\* The inverse ratios the request supplies for the direction, summed.
SuppliedInverse(block) ==
    (IF NotNone(block.adjacent_sat_ci_db) THEN InvLin(Val(block.adjacent_sat_ci_db)) ELSE 0)
      + (IF NotNone(block.cross_polar_ci_db) THEN InvLin(Val(block.cross_polar_ci_db)) ELSE 0)
      + (IF NotNone(block.other_carrier_ci_db) THEN InvLin(Val(block.other_carrier_ci_db)) ELSE 0)

\* The estimate is applied and the direction asks for it.
IntermodRequested == Val(imp).downlink /\ Val(imp).intermod.applied

\* 1 / (1/cn + 1/ci + 1/cim) in dB.
StatedCn ==
    DbOfInv(InvLin(Val(imp).base.cn_db)
              + SuppliedInverse(Val(imp).direction_data.interference)
              + (IF IntermodRequested THEN InvLin(Val(Val(imp).intermod.c_im_db)) ELSE 0))

\* 1 / 10 ** (h / 1000) scaled by 10^8 for h hundredths of a dB, 9.50 to
\* 9.60 dB.
InvLinHundredths ==
    [ h \in 950..960 |->
        << 11220185, 11194379, 11168632, 11142945, 11117317, 11091748, 11066238, 11040786,
           11015393, 10990058, 10964782 >>[h - 949] ]

\* The clean C/N of 20 dB under an adjacent-satellite C/I of 10 dB alone.
InterferenceExample ==
    /\ Impaired
    /\ Val(imp).base.cn_db = 200
    /\ Val(imp).direction_data.interference.adjacent_sat_ci_db = Some(100)
    /\ IsNone(Val(imp).direction_data.interference.cross_polar_ci_db)
    /\ ~ IntermodRequested

\* C21: the C/N after impairments is the reciprocal sum of the thermal C/N,
\* the C/I supplied and the C/IM when the estimate is applied and requested;
\* a clean 20 dB under a C/I of 10 dB gives 9.54 dB to the hundredth.
C21_ReciprocalSum ==
    /\ Impaired => Val(imp).returned.cn_db = StatedCn
    /\ InterferenceExample =>
          /\ Val(imp).returned.cn_db = 95
          /\ InvLinHundredths[954] >= InvLin(200) + InvLin(100)
          /\ InvLinHundredths[955] < InvLin(200) + InvLin(100)

\* What holds of C21: the reciprocal sum with the C/IM term whenever the
\* estimate is requested and is not 0 dB, and 9.58 dB in the example.
ReciprocalSumNonZeroCim ==
    /\ (Impaired /\ (IntermodRequested => Val(Val(imp).intermod.c_im_db) # 0)) =>
          Val(imp).returned.cn_db = StatedCn
    /\ InterferenceExample =>
          /\ Val(imp).returned.cn_db = 95
          /\ InvLinHundredths[958] >= InvLin(200) + InvLin(100)
          /\ InvLinHundredths[959] < InvLin(200) + InvLin(100)

Combined == NotNone(imp) /\ Val(imp).stage = "combined"

\* C22: combine_cn_db gives the same value with its arguments exchanged, and
\* for two equal arguments the value 10 log10(2) below them (3.0103 dB, which
\* in tenths of a dB rounded down is 3.0 or 3.1 below).
C22_CombineSymmetric ==
    Combined =>
        /\ Val(imp).returned = Val(imp).swapped
        /\ Val(imp).ul_cn = Val(imp).dl_cn =>
              /\ Val(imp).returned <= Val(imp).ul_cn - TenLog10(2)
              /\ Val(imp).returned >= Val(imp).ul_cn - TenLog10(2) - 1

\* 20 dB up and 10 dB down, combined below the weaker one.
C22_Witness ==
    /\ Combined
    /\ Val(imp).ul_cn = 200
    /\ Val(imp).dl_cn = 100
    /\ Val(imp).returned < 100
    /\ Val(imp).returned = Val(imp).swapped

\* C25: apply_impairments keeps the bookkeeping of the result consistent:
\* the returned C/N0 is the returned C/N plus 10 log10 of the bandwidth the
\* result had before, the link margin (if any) moves by what the C/N moves
\* by, cn_db <= cni_db <= the C/N before, and the result passed in, its
\* warnings included, is as it was, the changes being made on a new result.
C25_Bookkeeping ==
    /\ Impaired =>
          /\ Val(imp).returned.bandwidth_hz = Val(imp).base.bandwidth_hz
          /\ Val(imp).returned.cn0_dbhz - Val(imp).returned.cn_db
                = TenLog10(Val(imp).base.bandwidth_hz)
          /\ Val(imp).base.cn0_dbhz - Val(imp).base.cn_db
                = TenLog10(Val(imp).base.bandwidth_hz)
          /\ IF NotNone(Val(imp).base.link_margin_db)
             THEN /\ NotNone(Val(imp).returned.link_margin_db)
                  /\ Val(Val(imp).returned.link_margin_db) - Val(Val(imp).base.link_margin_db)
                        = Val(imp).returned.cn_db - Val(imp).base.cn_db
             ELSE IsNone(Val(imp).returned.link_margin_db)
          /\ NotNone(Val(imp).returned.cni_db)
          /\ Val(imp).returned.cn_db <= Val(Val(imp).returned.cni_db)
          /\ Val(Val(imp).returned.cni_db) <= Val(imp).base.cn_db
    /\ Applied => Val(imp).result = Val(imp).base

\* A result with a margin and a warning, degraded by interference and by
\* intermodulation: the returned result is lower in C/N, in C/(N+I) and in
\* margin and carries more warnings, and the one passed in is as it was.
C25_Witness ==
    /\ Impaired
    /\ Val(imp).result = Val(imp).base
    /\ NotNone(Val(imp).base.warnings)
    /\ Val(imp).returned.warnings # Val(imp).base.warnings
    /\ NotNone(Val(imp).base.link_margin_db)
    /\ Val(imp).returned.cn_db < Val(Val(imp).returned.cni_db)
    /\ Val(Val(imp).returned.cni_db) < Val(imp).base.cn_db
    /\ Val(Val(imp).returned.link_margin_db) < Val(Val(imp).base.link_margin_db)

\* The back-off the estimate works with: the output back-off when given,
\* otherwise the input back-off.
StatedBackoff(block) ==
    IF NotNone(block.output_backoff_db) THEN block.output_backoff_db ELSE block.input_backoff_db

\* The cases in which the estimate is stated to be (None, not applied).
NoEstimate(intermodulation) ==
    \/ IsNone(intermodulation)
    \/ IsNone(StatedBackoff(Val(intermodulation)))
    \/ IsNone(Val(intermodulation).composite_carriers)
    \/ Val(Val(intermodulation).composite_carriers) < 1

\* The direction's estimates have been made.
Estimated == NotNone(imp) /\ Val(imp).stage \in { "apply", "applied" }

\* C26: the intermodulation estimate is (None, not applied) exactly when the
\* block is absent, the back-off is missing or the carrier count is missing
\* or below 1, and otherwise applied with C/IM = max(0, 2*backoff + 7 -
\* 10*log10(carriers)); and whenever the estimate is applied and requested
\* for a direction, the direction's result has intermod_applied = true,
\* reports c_im_db, and its C/N includes the C/IM term.
C26_IntermodEstimate ==
    /\ Estimated =>
          IF NoEstimate(Val(imp).intermodulation)
          THEN Val(imp).intermod = [ c_im_db |-> None, applied |-> FALSE ]
          ELSE /\ Val(imp).intermod.applied
               /\ Val(imp).intermod.c_im_db =
                     Some(Max(0, 2 * Val(StatedBackoff(Val(Val(imp).intermodulation))) + 70
                                   - TenLog10(Val(Val(Val(imp).intermodulation).composite_carriers))))
    /\ (Impaired /\ IntermodRequested) =>
          /\ Val(imp).returned.intermod_applied
          /\ Val(imp).returned.c_im_db = Val(imp).intermod.c_im_db
          /\ Val(imp).returned.cn_db = StatedCn

\* The estimate itself is as stated in every state; an applied and requested
\* estimate other than 0 dB is reported and is part of the C/N.
IntermodEstimateNonZero ==
    /\ Estimated =>
          IF NoEstimate(Val(imp).intermodulation)
          THEN Val(imp).intermod = [ c_im_db |-> None, applied |-> FALSE ]
          ELSE Val(imp).intermod.applied /\ NotNone(Val(imp).intermod.c_im_db)
    /\ (Impaired /\ IntermodRequested /\ Val(imp).intermod.c_im_db # Some(0)) =>
          /\ Val(imp).returned.intermod_applied
          /\ Val(imp).returned.c_im_db = Val(imp).intermod.c_im_db
          /\ Val(imp).returned.cn_db = StatedCn

\* The warnings of a result as a list, empty for None.
WarningsOf(result) == IF NotNone(result.warnings) THEN Val(result.warnings) ELSE << >>

\* The warnings the call added behind the ones the result came with.
AddedWarnings ==
    SubSeq(WarningsOf(Val(imp).returned), Len(WarningsOf(Val(imp).base)) + 1,
           Len(WarningsOf(Val(imp).returned)))

\* The warnings the result came with are still the first ones, in order.
WarningsKept ==
    /\ Len(WarningsOf(Val(imp).returned)) >= Len(WarningsOf(Val(imp).base))
    /\ SubSeq(WarningsOf(Val(imp).returned), 1, Len(WarningsOf(Val(imp).base)))
          = WarningsOf(Val(imp).base)

\* One of the added warnings is of this kind and gives this degradation.
Warned(kind, degraded_by_db) ==
    \E i \in 1..Len(AddedWarnings) :
        AddedWarnings[i].kind = kind /\ AddedWarnings[i].degraded_by_db = degraded_by_db

\* C27: every direction result that reports interference_applied = true or
\* intermod_applied = true carries a warning that describes the degradation
\* by that impairment, appended behind the warnings already on the result,
\* which stay; a result with neither flag receives no impairment warning.
C27_WarningsForApplied ==
    Applied =>
        /\ WarningsKept
        /\ Val(imp).returned.interference_applied =>
              Warned("Interference applied",
                     Val(imp).base.cn_db - Val(Val(imp).returned.cni_db))
        /\ Val(imp).returned.intermod_applied =>
              Warned("Intermodulation applied", Val(imp).base.cn_db - Val(imp).returned.cn_db)
        /\ (~ Val(imp).returned.interference_applied /\ ~ Val(imp).returned.intermod_applied) =>
              AddedWarnings = << >>

\* The same with the interference warning asked for only where the request
\* gives at least one C/I ratio.
WarningsForRatios ==
    Applied =>
        /\ WarningsKept
        /\ (Val(imp).returned.interference_applied /\ NotNone(Val(imp).interference.aggregate_ci_db)) =>
              Warned("Interference applied",
                     Val(imp).base.cn_db - Val(Val(imp).returned.cni_db))
        /\ (Val(imp).returned.interference_applied /\ IsNone(Val(imp).interference.aggregate_ci_db)) =>
              /\ Val(imp).direction_data.interference.applied
              /\ ~ Warned("Interference applied", 0)
        /\ Val(imp).returned.intermod_applied =>
              Warned("Intermodulation applied", Val(imp).base.cn_db - Val(imp).returned.cn_db)
        /\ (~ Val(imp).returned.interference_applied /\ ~ Val(imp).returned.intermod_applied) =>
              AddedWarnings = << >>

(***************************************************************************)
(* agents/src/ntn_agents/graph.py                                          *)
(***************************************************************************)
\* The run is over, one way or another.
RunOver == NotNone(agent) /\ Val(agent).at \in { "END", "AttributeError", "GraphRecursionError" }

AtEnd == NotNone(agent) /\ Val(agent).at = "END"

\* The user answered cancel, stop or quit, in any case and spacing.
Cancelled ==
    /\ NotNone(agent) /\ NotNone(Val(agent).answer) /\ NotNone(Val(Val(agent).answer))
    /\ strip(lower(Val(Val(Val(agent).answer)))) \in { "cancel", "stop", "quit" }

\* The answer was put to human_node and calculate has not run.
CancelSkipsCalculate ==
    (Cancelled /\ "human_confirm" \in Val(agent).executed) =>
        "calculate" \notin Val(agent).executed

\* C30: every run of the workflow started by run_link_budget reaches END
\* after finitely many node executions, whatever asset resolution finds and
\* whatever the user answers, no answer included; and after an answer of
\* cancel, stop or quit put to human_confirm the run ends without executing
\* calculate.
C30_ReachesEnd ==
    /\ <>AtEnd
    /\ [](CancelSkipsCalculate /\ ((Cancelled /\ RunOver /\ "human_confirm" \in Val(agent).executed) => AtEnd))

\* What does hold: every run is over after at most RecursionLimit supersteps,
\* one that finds its assets resolved reaches END, an answer of cancel, stop
\* or quit is never followed by calculate, and cancel and stop reach END.
RunsEndOrRaise ==
    /\ <>RunOver
    /\ [](NotNone(agent) => Val(agent).steps <= RecursionLimit)
    /\ []((RunOver /\ Val(agent).found = "resolved") => AtEnd)
    /\ []CancelSkipsCalculate
    /\ []((RunOver /\ "human_confirm" \in Val(agent).executed
              /\ Val(agent).state.user_response = Some(Some("cancel"))) => AtEnd)
    /\ []((RunOver /\ ~ AtEnd) => "calculate" \notin Val(agent).executed)
=============================================================================
